---- MODULE Spec2Model ----
(***************************************************************************)
(* Order lifecycle of clean-py: the Order aggregate (domain/entities/      *)
(* order.py), its AggregateRoot event list, the Money value object it      *)
(* carries and the repository mapping that rebuilds an Order from a row;   *)
(* the Customer aggregate (domain/entities/customer.py); the in-memory     *)
(* repositories and the use cases that call them.                          *)
(*                                                                         *)
(* Python objects live on a heap: `orders` holds every Order instance ever *)
(* constructed (the index is the object's identity, so a receiver stays    *)
(* reachable after a transition returned a new instance), `customers` the  *)
(* Customer instances and `lists` the list objects that the instances'     *)
(* _domain_events fields refer to. A method is an operator from a heap     *)
(* H = [orders, lists, customers, _customers, _orders] (the last two are   *)
(* the lists the two shared repository objects hold) and a receiver (a     *)
(* heap index) to the heap it leaves and what it returns or raises.        *)
(***************************************************************************)
EXTENDS Integers, Sequences, FiniteSets, TLC

VARIABLES orders, lists, hist, clock, uuids, last, customers, chist, _customers, _orders,
          latest, moneys, requests, emitted, collected, tasks, rows

vars ==
    <<orders, lists, hist, clock, uuids, last, customers, chist, _customers, _orders,
      latest, moneys, requests, emitted, collected, tasks, rows>>

\* the variables of the aggregates and the repositories, but for the latest call
aggregateVars ==
    <<orders, lists, hist, clock, uuids, customers, chist, _customers, _orders, latest>>

\* the variables no aggregate, repository or use case operation touches
otherVars == <<moneys, requests, emitted, collected, tasks, rows>>

\* the event ids handed out and collected under linear use of an order
linearVars == <<emitted, collected>>

\* the tasks that run CreateCustomerUseCase.execute against the customers table
taskVars == <<tasks, rows>>

----------------------------------------------------------------------------
(* Bounds of the model *)

\* Order instances on the heap
MaxOrders == 4

\* a UUID value that no uuid4() call returns
UnknownUUID == 0
\* orders created through CreateOrderUseCase
MaxCreated == 2
\* UUID values: those Order.create is called with, and those the rows of the
\* orders table hold
OrderUUIDs == {1}
CustomerUUIDs == {2}
RowUUIDs == {1, 3}
RowCustomerUUIDs == {2, 4}
\* Decimal amounts a caller or a database row may carry
Amounts == -1 .. 1
\* details mappings, as sets of <<key, value>> pairs
EmptyDict == {}
LaptopDict == {<<"product", "laptop">>}
None == "None"
\* an optional mapping: <<>> is None, <<d>> is the mapping d
NoDict == <<>>
DetailsArgs == {NoDict, <<EmptyDict>>, <<LaptopDict>>}
\* cancel(reason): the argument left out, or given
Omitted == "<omitted>"
ReasonArgs == {Omitted, "Out of stock"}
\* currency strings as sequences of characters
USD == <<"U", "S", "D">>
Currencies == {USD, <<"u", "s", "d">>, <<"U", "S">>, <<>>}
UpperChars == {"U", "S", "D", "E", "R"}
LowerChars == {"u", "s", "d"}
\* Money instances on the heap, and the largest amount of an operand
MaxMoneys == 3
MaxAmount == 2
\* the currency strings Money is constructed with: "1" is a digit
EUR == <<"E", "U", "R">>
U1D == <<"U", "1", "D">>
MoneyCurrencies == Currencies \cup {EUR, U1D}
\* multiply(factor): int factors
Factors == -1 .. 2
\* the UUID values identifiers are constructed with
IdentifierUUIDs == {1, 2}

\* the pending events of an instance that a caller adds an event to, and the
\* instances of the aggregate whose event lists the callers reach
MaxEvents == 2
MaxChain == 2
\* tasks that run CreateCustomerUseCase.execute against the customers table
MaxTasks == 2
\* requests the server handles, concurrently
MaxRequests == 2
\* the headers of a request, as the server delivers them: <<name, value>> pairs in
\* the order received, the names in lower case
RequestHeaders ==
    {<<>>,
     <<<<"x-correlation-id", "a">>, <<"x-request-id", "b">>>>,
     <<<<"x-correlation-id", "">>, <<"x-request-id", "b">>>>,
     <<<<"aws-request-id", "e">>, <<"x-trace-id", "c">>>>,
     <<<<"x-amzn-trace-id", "d">>, <<"aws-request-id", "e">>>>,
     <<<<"x-correlation-id", "">>>>}
\* the value of correlation_id_var in the context a request's task starts with: the
\* default, or what an earlier request left in a context the server reuses
StartContexts == {None, "stale"}
\* the headers of the response the route handler returns
HandlerHeaders == {<<>>, <<<<"x-correlation-id", "h">>>>}

\* Customer instances on the heap
MaxCustomers == 4
\* UUID values Customer.create is called with, none that a uuid4() call of the model
\* returns
NewCustomerUUIDs == {100}
\* strings as sequences of characters: customer names and email addresses
Whitespace == {" "}
Names == {<<"A", "l">>, <<" ", " ">>, <<>>}
Letters == {"a", "b", "c", "o", "A"}
EmailStrings ==
    {<<"a", "@", "b", ".", "c", "o">>, <<"A", "@", "b", ".", "c", "o">>,
     <<"a", "@", "b">>, <<>>}
ThemeDict == {<<"theme", "dark">>}
PreferencesArgs == {NoDict, <<ThemeDict>>}
\* Address and PhoneNumber values, already constructed
Addresses == {"456 Oak Ave"}
PhoneNumbers == {"+14155552671"}
\* deactivate(reason): the argument left out, or given
DeactivateReasonArgs == {Omitted, "Business closure"}
\* CreateCustomerCommand values: two with valid names and emails, one of them with
\* preferences; a blank name; an email without a top-level domain
CreateCustomerCommands ==
    {[name |-> <<"A", "l">>, email |-> <<"a", "@", "b", ".", "c", "o">>,
      preferences |-> NoDict],
     [name |-> <<"A", "l">>, email |-> <<"A", "@", "b", ".", "c", "o">>,
      preferences |-> <<ThemeDict>>],
     [name |-> <<" ", " ">>, email |-> <<"a", "@", "b", ".", "c", "o">>,
      preferences |-> NoDict],
     [name |-> <<"A", "l">>, email |-> <<"a", "@", "b">>, preferences |-> NoDict]}
\* the commands of the tasks: two valid ones whose emails differ in case, and one
\* with an email without a top-level domain
TaskCommands == {c \in CreateCustomerCommands : c.name = <<"A", "l">>}
\* the total_amount, currency and details of CreateOrderCommand values
CreateOrderCommands ==
    {[total_amount |-> 1, currency |-> USD, details |-> <<LaptopDict>>],
     [total_amount |-> 0, currency |-> USD, details |-> NoDict]}

----------------------------------------------------------------------------
(* OrderStatus, exceptions, identifiers, Money *)

PENDING == "PENDING"
CONFIRMED == "CONFIRMED"
SHIPPED == "SHIPPED"
DELIVERED == "DELIVERED"
CANCELLED == "CANCELLED"
OrderStatus == {PENDING, CONFIRMED, SHIPPED, DELIVERED, CANCELLED}

NoExc == [type |-> None, message |-> <<>>, error_code |-> None, rule_name |-> None]

\* A message is the sequence of the fragments whose concatenation is the string.
\* DomainError.__init__ via BusinessRuleViolationError.__init__
BusinessRuleViolationError(message, rule_name) ==
    [type |-> "BusinessRuleViolationError", message |-> message,
     error_code |-> "BUSINESS_RULE_VIOLATION", rule_name |-> rule_name]

\* the builtin ValueError: a message, no error_code and no rule_name
ValueError(message) ==
    [type |-> "ValueError", message |-> message, error_code |-> None, rule_name |-> None]

\* the builtin TypeError
TypeError(message) ==
    [type |-> "TypeError", message |-> message, error_code |-> None, rule_name |-> None]

OrderId(value) == [type |-> "OrderId", value |-> value]
CustomerId(value) == [type |-> "CustomerId", value |-> value]

\* str.isupper(): at least one cased character and no lower-case one
isupper(s) ==
    /\ \E k \in 1 .. Len(s) : s[k] \in UpperChars
    /\ \A k \in 1 .. Len(s) : s[k] \notin LowerChars

\* Money.validate: the exception it raises, or NoExc
MoneyValidate(amount, currency) ==
    IF amount < 0 THEN ValueError(<<"Amount cannot be negative">>)
    ELSE IF Len(currency) = 0 THEN ValueError(<<"Currency cannot be empty">>)
    ELSE IF Len(currency) # 3 \/ ~isupper(currency)
         THEN ValueError(<<"Invalid currency code: ", currency>>)
    ELSE NoExc

\* Money(amount, currency): ValueObject.__post_init__ runs validate
Money(amount, currency) ==
    LET e == MoneyValidate(amount, currency)
    IN  [raised |-> e # NoExc, exc |-> e,
         value |-> [amount |-> amount, currency |-> currency]]

\* Money.add without the comparison of the currencies
Money_add_any_currency(self, other) == Money(self.amount + other.amount, self.currency)

\* Money.add(other): the outcome of the Money(...) it returns, or the exception
Money_add(self, other) ==
    IF self.currency # other.currency
    THEN [raised |-> TRUE,
          exc |-> ValueError(<<"Cannot add different currencies: ", self.currency,
                               " and ", other.currency>>),
          value |-> None]
    ELSE Money(self.amount + other.amount, self.currency)

\* Money.subtract(other)
Money_subtract(self, other) ==
    IF self.currency # other.currency
    THEN [raised |-> TRUE,
          exc |-> ValueError(<<"Cannot subtract different currencies: ", self.currency,
                               " and ", other.currency>>),
          value |-> None]
    ELSE IF self.amount - other.amount < 0
    THEN [raised |-> TRUE,
          exc |-> ValueError(<<"Subtraction would result in negative amount">>),
          value |-> None]
    ELSE Money(self.amount - other.amount, self.currency)

\* Money.multiply(factor), factor an int: Decimal(str(factor)) is the Decimal of the
\* same integer
Money_multiply(self, factor) ==
    IF factor < 0
    THEN [raised |-> TRUE, exc |-> ValueError(<<"Factor cannot be negative">>),
          value |-> None]
    ELSE Money(self.amount * factor, self.currency)

ProductId(value) == [type |-> "ProductId", value |-> value]

\* the Money values that exist: those whose construction succeeds
MoneyValues ==
    {Money(a, c).value : <<a, c>> \in
        {ac \in Amounts \X Currencies : ~Money(ac[1], ac[2]).raised}}

----------------------------------------------------------------------------
(* Domain events *)

OrderCreated(event_id, occurred_at, order_id, customer_id, total_amount) ==
    [event_type |-> "OrderCreated", event_id |-> event_id, occurred_at |-> occurred_at,
     order_id |-> order_id, customer_id |-> customer_id, total_amount |-> total_amount]

OrderCancelled(event_id, occurred_at, order_id, customer_id, previous_status, reason) ==
    [event_type |-> "OrderCancelled", event_id |-> event_id, occurred_at |-> occurred_at,
     order_id |-> order_id, customer_id |-> customer_id,
     previous_status |-> previous_status, reason |-> reason]

OrderStatusChanged(event_id, occurred_at, order_id, customer_id, old_status, new_status) ==
    [event_type |-> "OrderStatusChanged", event_id |-> event_id, occurred_at |-> occurred_at,
     order_id |-> order_id, customer_id |-> customer_id,
     old_status |-> old_status, new_status |-> new_status]

----------------------------------------------------------------------------
(* Results of calls *)

\* a call that returns: the heap it leaves, the index of the instance returned (0 for
\* none) and the plain value returned (None for none)
Return(H, ret, value) ==
    [raised |-> FALSE, exc |-> NoExc, heap |-> H, ret |-> ret, value |-> value]

\* a call that raises e, leaving heap H
Raise(H, e) ==
    [raised |-> TRUE, exc |-> e, heap |-> H, ret |-> 0, value |-> None]

----------------------------------------------------------------------------
(* AggregateRoot: the pending events of an instance are the contents of    *)
(* the list object its _domain_events field refers to.                     *)

\* a new list object holding `contents` (default_factory=list, list.copy())
ListNew(H, contents) ==
    [heap |-> [H EXCEPT !.lists = Append(@, contents)], ref |-> Len(H.lists) + 1]

\* add_domain_event with the event inserted at the head of the list
add_domain_event_front(H, self, event) ==
    [H EXCEPT !.lists[H.orders[self]._domain_events] = <<event>> \o @]

\* AggregateRoot.add_domain_event: append in place to the instance's list
add_domain_event(H, self, event) ==
    [H EXCEPT !.lists[H.orders[self]._domain_events] = Append(@, event)]

\* collect_domain_events without the clear()
collect_domain_events_keep(H, self) ==
    Return(H, 0, H.lists[H.orders[self]._domain_events])

\* AggregateRoot.collect_domain_events: a copy is returned, the list is cleared in place
collect_domain_events(H, self) ==
    Return([H EXCEPT !.lists[H.orders[self]._domain_events] = <<>>], 0,
           H.lists[H.orders[self]._domain_events])

\* AggregateRoot.clear_domain_events: the list is cleared in place
clear_domain_events(H, self) ==
    [H EXCEPT !.lists[H.orders[self]._domain_events] = <<>>]

----------------------------------------------------------------------------
(* Order *)

\* _validate_business_rules with the comparison < in place of <=
_validate_business_rules_lt(total_amount) ==
    IF total_amount.amount < 0
    THEN BusinessRuleViolationError(
            <<"Order total amount must be greater than zero">>, "MinimumOrderAmount")
    ELSE NoExc

\* Order._validate_business_rules: the exception it raises, or NoExc
_validate_business_rules(total_amount) ==
    IF total_amount.amount <= 0
    THEN BusinessRuleViolationError(
            <<"Order total amount must be greater than zero">>, "MinimumOrderAmount")
    ELSE NoExc

\* Order(...) with a __post_init__ that does not validate
Order_unvalidated(H, id, order_id, customer_id, total_amount, status, details, created_at, updated_at) ==
    LET l == ListNew(H, <<>>)
        o == [id |-> order_id.value, order_id |-> order_id,
              customer_id |-> customer_id, total_amount |-> total_amount,
              status |-> status, details |-> details,
              created_at |-> created_at, updated_at |-> updated_at,
              _domain_events |-> l.ref]
    IN  Return([l.heap EXCEPT !.orders = Append(@, o)], Len(H.orders) + 1, None)

\* Order(...): the dataclass __init__ (with a fresh empty _domain_events list), then
\* __post_init__, which sets id from order_id and validates; the new instance is
\* on the heap only when no exception left the constructor
Order(H, id, order_id, customer_id, total_amount, status, details, created_at, updated_at) ==
    LET l == ListNew(H, <<>>)
        e == _validate_business_rules(total_amount)
        o == [id |-> order_id.value, order_id |-> order_id,
              customer_id |-> customer_id, total_amount |-> total_amount,
              status |-> status, details |-> details,
              created_at |-> created_at, updated_at |-> updated_at,
              _domain_events |-> l.ref]
    IN  IF e # NoExc THEN Raise(H, e)
        ELSE Return([l.heap EXCEPT !.orders = Append(@, o)], Len(H.orders) + 1, None)

\* Order.create: construct, then add the OrderCreated event. t1, t2 are the clock
\* readings of the created_at and updated_at defaults, t3 that of occurred_at
create(H, order_id, customer_id, total_amount, details, t1, t2, t3, event_id) ==
    LET order == Order(H, order_id.value, order_id, customer_id, total_amount, PENDING,
                       IF details = NoDict \/ details[1] = EmptyDict
                       THEN EmptyDict ELSE details[1],
                       t1, t2)
    IN  IF order.raised THEN order
        ELSE Return(add_domain_event(order.heap, order.ret,
                        OrderCreated(event_id, t3, order_id, customer_id, total_amount)),
                    order.ret, None)

\* can_be_cancelled that also admits SHIPPED
can_be_cancelled_shipped(H, self) ==
    H.orders[self].status \in {PENDING, CONFIRMED, SHIPPED}

\* can_be_cancelled that admits PENDING only
can_be_cancelled_pending(H, self) == H.orders[self].status = PENDING

\* Order.can_be_cancelled
can_be_cancelled(H, self) == H.orders[self].status \in {PENDING, CONFIRMED}

\* cancel that sets the status on the receiver itself and returns the receiver
cancel_inplace(H, self, reason, t1, t2, event_id) ==
    LET this == H.orders[self] IN
    IF ~can_be_cancelled(H, self)
    THEN Raise(H, BusinessRuleViolationError(
            <<"Order in ", this.status, " status cannot be cancelled">>,
            "OrderCancellationRule"))
    ELSE LET H2 == [H EXCEPT !.orders[self].status = CANCELLED,
                             !.orders[self].updated_at = t1]
         IN  Return(add_domain_event(H2, self,
                        OrderCancelled(event_id, t2, this.order_id, this.customer_id,
                            this.status,
                            IF reason = Omitted THEN "Customer request" ELSE reason)),
                    self, None)

\* cancel that records the default reason whatever the caller supplies
cancel_default_reason(H, self, reason, t1, t2, event_id) ==
    LET this == H.orders[self] IN
    IF ~can_be_cancelled(H, self)
    THEN Raise(H, BusinessRuleViolationError(
            <<"Order in ", this.status, " status cannot be cancelled">>,
            "OrderCancellationRule"))
    ELSE LET cancelled_order ==
                 Order(H, this.order_id.value, this.order_id, this.customer_id,
                       this.total_amount, CANCELLED, this.details, this.created_at, t1)
         IN  IF cancelled_order.raised THEN cancelled_order
             ELSE LET copy == ListNew(cancelled_order.heap, H.lists[this._domain_events])
                      H2 == [copy.heap EXCEPT
                                !.orders[cancelled_order.ret]._domain_events = copy.ref]
                  IN  Return(add_domain_event(H2, cancelled_order.ret,
                                 OrderCancelled(event_id, t2, this.order_id,
                                     this.customer_id, this.status, "Customer request")),
                             cancelled_order.ret, None)

\* Order.cancel; reason is Omitted when the caller leaves the argument out, and the
\* parameter's default applies
cancel(H, self, reason, t1, t2, event_id) ==
    LET this == H.orders[self] IN
    IF ~can_be_cancelled(H, self)
    THEN Raise(H, BusinessRuleViolationError(
            <<"Order in ", this.status, " status cannot be cancelled">>,
            "OrderCancellationRule"))
    ELSE LET cancelled_order ==
                 Order(H, this.order_id.value, this.order_id, this.customer_id,
                       this.total_amount, CANCELLED, this.details, this.created_at, t1)
         IN  IF cancelled_order.raised THEN cancelled_order
             ELSE LET copy == ListNew(cancelled_order.heap, H.lists[this._domain_events])
                      H2 == [copy.heap EXCEPT
                                !.orders[cancelled_order.ret]._domain_events = copy.ref]
                  IN  Return(add_domain_event(H2, cancelled_order.ret,
                                 OrderCancelled(event_id, t2, this.order_id,
                                     this.customer_id, this.status,
                                     IF reason = Omitted THEN "Customer request"
                                     ELSE reason)),
                             cancelled_order.ret, None)

\* _change_status that leaves the new instance its own empty list: the receiver's
\* events are not copied
_change_status_nocopy(H, self, new_status, t1, t2, event_id) ==
    LET this == H.orders[self]
        updated_order ==
            Order(H, this.order_id.value, this.order_id, this.customer_id,
                  this.total_amount, new_status, this.details, this.created_at, t1)
    IN  IF updated_order.raised THEN updated_order
        ELSE Return(add_domain_event(updated_order.heap, updated_order.ret,
                        OrderStatusChanged(event_id, t2, this.order_id,
                            this.customer_id, this.status, new_status)),
                    updated_order.ret, None)

\* _change_status that lets created_at and details take their defaults
_change_status_defaults(H, self, new_status, t1, t2, event_id) ==
    LET this == H.orders[self]
        updated_order ==
            Order(H, this.order_id.value, this.order_id, this.customer_id,
                  this.total_amount, new_status, EmptyDict, t1, t1)
    IN  IF updated_order.raised THEN updated_order
        ELSE LET copy == ListNew(updated_order.heap, H.lists[this._domain_events])
                 H2 == [copy.heap EXCEPT
                           !.orders[updated_order.ret]._domain_events = copy.ref]
             IN  Return(add_domain_event(H2, updated_order.ret,
                            OrderStatusChanged(event_id, t2, this.order_id,
                                this.customer_id, this.status, new_status)),
                        updated_order.ret, None)

\* _change_status that also assigns the new status to the receiver
_change_status_inplace(H, self, new_status, t1, t2, event_id) ==
    LET this == H.orders[self]
        updated_order ==
            Order(H, this.order_id.value, this.order_id, this.customer_id,
                  this.total_amount, new_status, this.details, this.created_at, t1)
    IN  IF updated_order.raised THEN updated_order
        ELSE LET copy == ListNew(updated_order.heap, H.lists[this._domain_events])
                 H2 == [copy.heap EXCEPT
                           !.orders[updated_order.ret]._domain_events = copy.ref,
                           !.orders[self].status = new_status]
             IN  Return(add_domain_event(H2, updated_order.ret,
                            OrderStatusChanged(event_id, t2, this.order_id,
                                this.customer_id, this.status, new_status)),
                        updated_order.ret, None)

\* _change_status that hands the receiver's list object to the new instance
_change_status_aliased(H, self, new_status, t1, t2, event_id) ==
    LET this == H.orders[self]
        updated_order ==
            Order(H, this.order_id.value, this.order_id, this.customer_id,
                  this.total_amount, new_status, this.details, this.created_at, t1)
    IN  IF updated_order.raised THEN updated_order
        ELSE LET H2 == [updated_order.heap EXCEPT
                           !.orders[updated_order.ret]._domain_events =
                               this._domain_events]
             IN  Return(add_domain_event(H2, updated_order.ret,
                            OrderStatusChanged(event_id, t2, this.order_id,
                                this.customer_id, this.status, new_status)),
                        updated_order.ret, None)

\* Order._change_status
_change_status(H, self, new_status, t1, t2, event_id) ==
    LET this == H.orders[self]
        updated_order ==
            Order(H, this.order_id.value, this.order_id, this.customer_id,
                  this.total_amount, new_status, this.details, this.created_at, t1)
    IN  IF updated_order.raised THEN updated_order
        ELSE LET copy == ListNew(updated_order.heap, H.lists[this._domain_events])
                 H2 == [copy.heap EXCEPT
                           !.orders[updated_order.ret]._domain_events = copy.ref]
             IN  Return(add_domain_event(H2, updated_order.ret,
                            OrderStatusChanged(event_id, t2, this.order_id,
                                this.customer_id, this.status, new_status)),
                        updated_order.ret, None)

\* Order.confirm
confirm(H, self, t1, t2, event_id) ==
    IF H.orders[self].status # PENDING
    THEN Raise(H, BusinessRuleViolationError(
            <<"Only pending orders can be confirmed. Current status: ",
              H.orders[self].status>>,
            "OrderConfirmationRule"))
    ELSE _change_status(H, self, CONFIRMED, t1, t2, event_id)

\* ship that raises under deliver's rule name
ship_wrong_rule(H, self, t1, t2, event_id) ==
    IF H.orders[self].status # CONFIRMED
    THEN Raise(H, BusinessRuleViolationError(
            <<"Only confirmed orders can be shipped. Current status: ",
              H.orders[self].status>>,
            "OrderDeliveryRule"))
    ELSE _change_status(H, self, SHIPPED, t1, t2, event_id)

\* Order.ship
ship(H, self, t1, t2, event_id) ==
    IF H.orders[self].status # CONFIRMED
    THEN Raise(H, BusinessRuleViolationError(
            <<"Only confirmed orders can be shipped. Current status: ",
              H.orders[self].status>>,
            "OrderShippingRule"))
    ELSE _change_status(H, self, SHIPPED, t1, t2, event_id)

\* deliver that records the event on the receiver before it checks the status
deliver_event_first(H, self, t1, t2, event_id) ==
    LET this == H.orders[self]
        H1 == add_domain_event(H, self,
                  OrderStatusChanged(event_id, t2, this.order_id, this.customer_id,
                                     this.status, DELIVERED))
    IN  IF this.status # SHIPPED
        THEN Raise(H1, BusinessRuleViolationError(
                <<"Only shipped orders can be delivered. Current status: ",
                  this.status>>,
                "OrderDeliveryRule"))
        ELSE _change_status(H, self, DELIVERED, t1, t2, event_id)

\* Order.deliver
deliver(H, self, t1, t2, event_id) ==
    IF H.orders[self].status # SHIPPED
    THEN Raise(H, BusinessRuleViolationError(
            <<"Only shipped orders can be delivered. Current status: ",
              H.orders[self].status>>,
            "OrderDeliveryRule"))
    ELSE _change_status(H, self, DELIVERED, t1, t2, event_id)

\* Order.__eq__ as @dataclass generates it for the class Order (eq=True, no __eq__ in
\* the class body): instances of the same class are equal when all their fields are,
\* the _domain_events lists compared by contents
Order___eq__(H, self, other) ==
    [H.orders[self] EXCEPT !._domain_events = H.lists[@]]
        = [H.orders[other] EXCEPT !._domain_events = H.lists[@]]

\* hash(order): @dataclass with eq=True and no __hash__ in the class body sets
\* Order.__hash__ to None
Order___hash__(H, self) == Raise(H, TypeError(<<"unhashable type: ", "Order">>))

----------------------------------------------------------------------------
(* PostgresOrderRepository._model_to_entity: an Order rebuilt from a row *)

\* OrderStatus(value): the enum member with that value, ValueError otherwise
OrderStatusOf(value) ==
    IF value \in OrderStatus THEN NoExc
    ELSE ValueError(<<value, " is not a valid OrderStatus">>)

\* the rows a table of OrderModel may hold
OrderRows ==
    [id : RowUUIDs, customer_id : RowCustomerUUIDs, total_amount : Amounts,
     status : OrderStatus \cup {"pending"}, details : {NoDict, <<LaptopDict>>},
     created_at : {0}, updated_at : {0}]

\* the keyword arguments are evaluated in order: Money(...) before OrderStatus(...)
_model_to_entity(H, model) ==
    LET m == Money(model.total_amount, USD)
        s == OrderStatusOf(model.status)
    IN  IF m.raised THEN Raise(H, m.exc)
        ELSE IF s # NoExc THEN Raise(H, s)
        ELSE Order(H, model.id, OrderId(model.id), CustomerId(model.customer_id),
                   m.value, model.status,
                   IF model.details = NoDict \/ model.details[1] = EmptyDict
                   THEN EmptyDict ELSE model.details[1],
                   model.created_at, model.updated_at)

----------------------------------------------------------------------------
(* Email *)

\* every character of s from position a to position b is in the class cs
AllIn(s, a, b, cs) == \A k \in a .. b : s[k] \in cs

\* re.match of ^[a-zA-Z0-9._%+-]+@[a-zA-Z0-9.-]+\.[a-zA-Z]{2,}$ on the first n
\* characters of s: a is the place of the "@", d that of the dot before the last label
EmailPatternUpTo(s, n) ==
    \E a \in 2 .. n, d \in 4 .. n :
        /\ a + 1 < d
        /\ d + 2 <= n
        /\ AllIn(s, 1, a - 1, Letters \cup {".", "_", "%", "+", "-"})
        /\ s[a] = "@"
        /\ AllIn(s, a + 1, d - 1, Letters \cup {".", "-"})
        /\ s[d] = "."
        /\ AllIn(s, d + 1, n, Letters)

\* $ matches at the end of the string and before a newline that ends it
EmailPattern(s) ==
    \/ EmailPatternUpTo(s, Len(s))
    \/ Len(s) > 0 /\ s[Len(s)] = "\n" /\ EmailPatternUpTo(s, Len(s) - 1)

\* Email.validate: the exception it raises, or NoExc
EmailValidate(value) ==
    IF Len(value) = 0 THEN ValueError(<<"Email cannot be empty">>)
    ELSE IF ~EmailPattern(value) THEN ValueError(<<"Invalid email format: ", value>>)
    ELSE NoExc

\* Email(value): ValueObject.__post_init__ runs validate
Email(value) ==
    LET e == EmailValidate(value)
    IN  [raised |-> e # NoExc, exc |-> e, value |-> [type |-> "Email", value |-> value]]

\* the Email values that exist: those whose construction succeeds
EmailValues == {Email(v).value : v \in {w \in EmailStrings : ~Email(w).raised}}

\* Email.__str__
str(email) == email.value

----------------------------------------------------------------------------
(* Customer *)

CustomerCreated(event_id, occurred_at, customer_id, customer_name, customer_email) ==
    [event_type |-> "CustomerCreated", event_id |-> event_id, occurred_at |-> occurred_at,
     customer_id |-> customer_id, customer_name |-> customer_name,
     customer_email |-> customer_email]

CustomerDeactivated(event_id, occurred_at, customer_id, reason) ==
    [event_type |-> "CustomerDeactivated", event_id |-> event_id,
     occurred_at |-> occurred_at, customer_id |-> customer_id, reason |-> reason]

\* str.strip(): the string without its leading and trailing whitespace
RECURSIVE strip(_)
strip(s) ==
    IF Len(s) = 0 THEN s
    ELSE IF s[1] \in Whitespace THEN strip(Tail(s))
    ELSE IF s[Len(s)] \in Whitespace THEN strip(SubSeq(s, 1, Len(s) - 1))
    ELSE s

\* AggregateRoot.add_domain_event on a Customer instance
Customer_add_domain_event(H, self, event) ==
    [H EXCEPT !.lists[H.customers[self]._domain_events] = Append(@, event)]

\* AggregateRoot.collect_domain_events on a Customer instance
Customer_collect_domain_events(H, self) ==
    Return([H EXCEPT !.lists[H.customers[self]._domain_events] = <<>>], 0,
           H.lists[H.customers[self]._domain_events])

\* AggregateRoot.clear_domain_events on a Customer instance
Customer_clear_domain_events(H, self) ==
    [H EXCEPT !.lists[H.customers[self]._domain_events] = <<>>]

\* _validate_business_rules raising the domain's BusinessRuleViolationError
Customer__validate_business_rules_brv(name) ==
    IF Len(strip(name)) = 0
    THEN BusinessRuleViolationError(<<"Customer name cannot be empty">>, "CustomerNameRule")
    ELSE NoExc

\* Customer._validate_business_rules: the exception it raises, or NoExc
Customer__validate_business_rules(name) ==
    IF Len(strip(name)) = 0 THEN ValueError(<<"Customer name cannot be empty">>)
    ELSE NoExc

\* Customer(...): the dataclass __init__ (with a fresh empty _domain_events list), then
\* __post_init__, which sets id from customer_id and validates
Customer(H, id, customer_id, name, email, address, phone, is_active, preferences, created_at, updated_at) ==
    LET l == ListNew(H, <<>>)
        e == Customer__validate_business_rules(name)
        c == [id |-> customer_id.value, customer_id |-> customer_id, name |-> name,
              email |-> email, address |-> address, phone |-> phone,
              is_active |-> is_active, preferences |-> preferences,
              created_at |-> created_at, updated_at |-> updated_at,
              _domain_events |-> l.ref]
    IN  IF e # NoExc THEN Raise(H, e)
        ELSE Return([l.heap EXCEPT !.customers = Append(@, c)], Len(H.customers) + 1, None)

\* Customer.create: construct, then add the CustomerCreated event. t1, t2 are the
\* clock readings of the created_at and updated_at defaults, t3 that of occurred_at
Customer_create(H, customer_id, name, email, address, phone, preferences, t1, t2, t3, event_id) ==
    LET customer == Customer(H, customer_id.value, customer_id, name, email, address,
                             phone, TRUE,
                             IF preferences = NoDict \/ preferences[1] = EmptyDict
                             THEN EmptyDict ELSE preferences[1],
                             t1, t2)
    IN  IF customer.raised THEN customer
        ELSE Return(Customer_add_domain_event(customer.heap, customer.ret,
                        CustomerCreated(event_id, t3, customer_id, name, str(email))),
                    customer.ret, None)

\* deactivate without the is_active guard
deactivate_unguarded(H, self, reason, t1, t2, event_id) ==
    LET this == H.customers[self]
        deactivated_customer ==
            Customer(H, this.customer_id.value, this.customer_id, this.name, this.email,
                     this.address, this.phone, FALSE, this.preferences,
                     this.created_at, t1)
    IN  IF deactivated_customer.raised THEN deactivated_customer
        ELSE LET copy == ListNew(deactivated_customer.heap, H.lists[this._domain_events])
                 H2 == [copy.heap EXCEPT
                           !.customers[deactivated_customer.ret]._domain_events = copy.ref]
             IN  Return(Customer_add_domain_event(H2, deactivated_customer.ret,
                            CustomerDeactivated(event_id, t2, this.customer_id,
                                IF reason = Omitted THEN "Manual deactivation"
                                ELSE reason)),
                        deactivated_customer.ret, None)

\* deactivate that leaves the new instance its own empty list: the receiver's events
\* are not copied
deactivate_nocopy(H, self, reason, t1, t2, event_id) ==
    LET this == H.customers[self] IN
    IF ~this.is_active
    THEN Raise(H, ValueError(<<"Customer is ", "already deactivated">>))
    ELSE LET deactivated_customer ==
                 Customer(H, this.customer_id.value, this.customer_id, this.name,
                          this.email, this.address, this.phone, FALSE, this.preferences,
                          this.created_at, t1)
         IN  IF deactivated_customer.raised THEN deactivated_customer
             ELSE Return(Customer_add_domain_event(deactivated_customer.heap,
                             deactivated_customer.ret,
                             CustomerDeactivated(event_id, t2, this.customer_id,
                                 IF reason = Omitted THEN "Manual deactivation"
                                 ELSE reason)),
                         deactivated_customer.ret, None)

\* Customer.deactivate; reason is Omitted when the caller leaves the argument out, and
\* the parameter's default applies
deactivate(H, self, reason, t1, t2, event_id) ==
    LET this == H.customers[self] IN
    IF ~this.is_active
    THEN Raise(H, ValueError(<<"Customer is ", "already deactivated">>))
    ELSE LET deactivated_customer ==
                 Customer(H, this.customer_id.value, this.customer_id, this.name,
                          this.email, this.address, this.phone, FALSE, this.preferences,
                          this.created_at, t1)
         IN  IF deactivated_customer.raised THEN deactivated_customer
             ELSE LET copy == ListNew(deactivated_customer.heap,
                                      H.lists[this._domain_events])
                      H2 == [copy.heap EXCEPT
                                !.customers[deactivated_customer.ret]._domain_events =
                                    copy.ref]
                  IN  Return(Customer_add_domain_event(H2, deactivated_customer.ret,
                                 CustomerDeactivated(event_id, t2, this.customer_id,
                                     IF reason = Omitted THEN "Manual deactivation"
                                     ELSE reason)),
                             deactivated_customer.ret, None)

\* update_address that constructs the new instance with is_active left to its
\* default, True
update_address_default_active(H, self, address, t1) ==
    LET this == H.customers[self]
    IN  Customer(H, this.customer_id.value, this.customer_id, this.name, this.email,
                 address, this.phone, TRUE, this.preferences, this.created_at, t1)

\* Customer.update_address: the new instance keeps the empty list its constructor
\* gave it
update_address(H, self, address, t1) ==
    LET this == H.customers[self]
    IN  Customer(H, this.customer_id.value, this.customer_id, this.name, this.email,
                 address, this.phone, this.is_active, this.preferences,
                 this.created_at, t1)

\* Customer.update_phone: the new instance keeps the empty list its constructor
\* gave it
update_phone(H, self, phone, t1) ==
    LET this == H.customers[self]
    IN  Customer(H, this.customer_id.value, this.customer_id, this.name, this.email,
                 this.address, phone, this.is_active, this.preferences,
                 this.created_at, t1)

\* Customer.__eq__ as @dataclass generates it for the class Customer: all fields
\* are compared, the _domain_events lists by contents
Customer___eq__(H, self, other) ==
    [H.customers[self] EXCEPT !._domain_events = H.lists[@]]
        = [H.customers[other] EXCEPT !._domain_events = H.lists[@]]

\* hash(customer): Customer.__hash__ is None
Customer___hash__(H, self) == Raise(H, TypeError(<<"unhashable type: ", "Customer">>))

----------------------------------------------------------------------------
(* The in-memory repositories (presentation/repositories.py)               *)

\* a uuid.UUID object and the None object, where the class of an argument decides
\* a comparison
UUID(value) == [type |-> "UUID", value |-> value]
NoneValue == [type |-> "NoneType", value |-> 0]

\* an __eq__ that compares the UUID values whatever the class of other is
CustomerId___eq___any_class(self, other) == other.value = self.value

\* CustomerId.__eq__ as @dataclass generates it: the fields are compared when other
\* is a CustomerId; otherwise it returns NotImplemented, so does the reflected
\* method of the other class, and == falls back to object identity
CustomerId___eq__(self, other) == other.type = "CustomerId" /\ other.value = self.value

\* OrderId.__eq__ and ProductId.__eq__, generated the same way
OrderId___eq__(self, other) == other.type = "OrderId" /\ other.value = self.value
ProductId___eq__(self, other) == other.type = "ProductId" /\ other.value = self.value

\* a == b for an identifier a: the __eq__ of a's class
Identifier___eq__(a, b) ==
    CASE a.type = "CustomerId" -> CustomerId___eq__(a, b)
      [] a.type = "OrderId" -> OrderId___eq__(a, b)
      [] a.type = "ProductId" -> ProductId___eq__(a, b)

\* next(iter(passing), None), passing the elements that pass the test, in order:
\* the first of them, 0 for None
First(passing) == IF passing = <<>> THEN 0 ELSE Head(passing)

\* InMemoryCustomerRepository.find_by_id(customer_id), customer_id a UUID value
InMemoryCustomerRepository_find_by_id(H, customer_id) ==
    First(SelectSeq(H._customers, LAMBDA c : H.customers[c].id = customer_id))

\* InMemoryCustomerRepository.find_by_email(email), email a string
InMemoryCustomerRepository_find_by_email(H, email) ==
    First(SelectSeq(H._customers, LAMBDA c : str(H.customers[c].email) = email))

\* save that appends without removing the stored customer of the same id
InMemoryCustomerRepository_save_append(H, customer) ==
    [H EXCEPT !._customers = Append(@, customer)]

\* InMemoryCustomerRepository.save(customer): the heap it leaves
InMemoryCustomerRepository_save(H, customer) ==
    [H EXCEPT !._customers =
        Append(SelectSeq(@, LAMBDA c : H.customers[c].id # H.customers[customer].id),
               customer)]

\* InMemoryOrderRepository.find_by_id(order_id), order_id a UUID value
InMemoryOrderRepository_find_by_id(H, order_id) ==
    First(SelectSeq(H._orders, LAMBDA o : H.orders[o].id = order_id))

\* InMemoryOrderRepository.save(order): the heap it leaves
InMemoryOrderRepository_save(H, order) ==
    [H EXCEPT !._orders =
        Append(SelectSeq(@, LAMBDA o : H.orders[o].id # H.orders[order].id), order)]

\* InMemoryOrderRepository.find_by_customer(customer_id): o.customer_id, a
\* CustomerId, is compared with the argument
InMemoryOrderRepository_find_by_customer(H, customer_id) ==
    SelectSeq(H._orders, LAMBDA o : CustomerId___eq__(H.orders[o].customer_id, customer_id))

----------------------------------------------------------------------------
(* Use cases (application/use_cases). A result's value is the sequence of  *)
(* the repository calls made, for execute of the two commands.             *)

\* the result r with the log of repository calls as its value
Logged(r, calls) == [r EXCEPT !.value = calls]

\* CreateCustomerUseCase.execute without the check for an existing email
CreateCustomerUseCase_execute_unchecked(H, command, t1, t2, t3, u1, event_id) ==
    LET email == Email(command.email)
        customer == Customer_create(H, CustomerId(u1), command.name, email.value, None,
                                    None,
                                    IF command.preferences = NoDict
                                       \/ command.preferences[1] = EmptyDict
                                    THEN <<EmptyDict>> ELSE command.preferences,
                                    t1, t2, t3, event_id)
    IN  IF email.raised THEN Logged(Raise(H, email.exc), <<"find_by_email">>)
        ELSE IF customer.raised THEN Logged(customer, <<"find_by_email">>)
        ELSE Logged(Return(InMemoryCustomerRepository_save(customer.heap, customer.ret),
                           customer.ret, None),
                    <<"find_by_email", "save">>)

\* CreateCustomerUseCase.execute(command); u1 is the uuid4() of the customer id
CreateCustomerUseCase_execute(H, command, t1, t2, t3, u1, event_id) ==
    LET existing == InMemoryCustomerRepository_find_by_email(H, command.email)
        email == Email(command.email)
        customer == Customer_create(H, CustomerId(u1), command.name, email.value, None,
                                    None,
                                    IF command.preferences = NoDict
                                       \/ command.preferences[1] = EmptyDict
                                    THEN <<EmptyDict>> ELSE command.preferences,
                                    t1, t2, t3, event_id)
    IN  IF existing # 0
        THEN Logged(Raise(H, ValueError(<<"Customer with email ">> \o command.email
                                        \o <<" ", "already exists">>)),
                    <<"find_by_email">>)
        ELSE IF email.raised THEN Logged(Raise(H, email.exc), <<"find_by_email">>)
        ELSE IF customer.raised THEN Logged(customer, <<"find_by_email">>)
        ELSE Logged(Return(InMemoryCustomerRepository_save(customer.heap, customer.ret),
                           customer.ret, None),
                    <<"find_by_email", "save">>)

\* CreateOrderUseCase.execute without the check of customer.is_active
CreateOrderUseCase_execute_any_customer(H, command, t1, t2, t3, u1, event_id) ==
    LET customer == InMemoryCustomerRepository_find_by_id(H, command.customer_id)
        total_amount == Money(command.total_amount, command.currency)
        order == create(H, OrderId(u1), CustomerId(command.customer_id),
                        total_amount.value,
                        IF command.details = NoDict \/ command.details[1] = EmptyDict
                        THEN <<EmptyDict>> ELSE command.details,
                        t1, t2, t3, event_id)
    IN  IF customer = 0
        THEN Logged(Raise(H, ValueError(<<"Customer with ID ",
                                          ToString(command.customer_id), " ",
                                          "not found">>)),
                    <<"find_by_id">>)
        ELSE IF total_amount.raised THEN Logged(Raise(H, total_amount.exc), <<"find_by_id">>)
        ELSE IF order.raised THEN Logged(order, <<"find_by_id">>)
        ELSE Logged(Return(InMemoryOrderRepository_save(order.heap, order.ret),
                           order.ret, None),
                    <<"find_by_id", "save">>)

\* CreateOrderUseCase.execute(command); u1 is the uuid4() of the order id
CreateOrderUseCase_execute(H, command, t1, t2, t3, u1, event_id) ==
    LET customer == InMemoryCustomerRepository_find_by_id(H, command.customer_id)
        total_amount == Money(command.total_amount, command.currency)
        order == create(H, OrderId(u1), CustomerId(command.customer_id),
                        total_amount.value,
                        IF command.details = NoDict \/ command.details[1] = EmptyDict
                        THEN <<EmptyDict>> ELSE command.details,
                        t1, t2, t3, event_id)
    IN  IF customer = 0
        THEN Logged(Raise(H, ValueError(<<"Customer with ID ",
                                          ToString(command.customer_id), " ",
                                          "not found">>)),
                    <<"find_by_id">>)
        ELSE IF ~H.customers[customer].is_active
        THEN Logged(Raise(H, ValueError(<<"Cannot create order for ",
                                          "inactive customer">>)),
                    <<"find_by_id">>)
        ELSE IF total_amount.raised THEN Logged(Raise(H, total_amount.exc), <<"find_by_id">>)
        ELSE IF order.raised THEN Logged(order, <<"find_by_id">>)
        ELSE Logged(Return(InMemoryOrderRepository_save(order.heap, order.ret),
                           order.ret, None),
                    <<"find_by_id", "save">>)

\* GetCustomerOrdersQuery.execute(customer_id): the list find_by_customer returns
GetCustomerOrdersQuery_execute(H, customer_id) ==
    IF customer_id.type = "NoneType"
    THEN Raise(H, ValueError(<<"Customer ID cannot be empty">>))
    ELSE Return(H, 0, InMemoryOrderRepository_find_by_customer(H, customer_id))

----------------------------------------------------------------------------
(* State *)
(*                                                                         *)
(* orders  the Order instances, by object identity                         *)
(* lists   the list objects the _domain_events fields refer to             *)
(* hist    per instance, the operations that built its pending events:     *)
(*         the calls since Order.create or the load, restarted by a        *)
(*         collect_domain_events on the instance                           *)
(* clock   the number of readings of datetime.now(UTC) by the calls that   *)
(*         returned so far; the k-th reading is the value k                *)
(* uuids   the number of uuid4() calls by the calls that returned so far;  *)
(*         the k-th call returns k                                         *)
(* last    the latest call and its outcome                                 *)
(* customers   the Customer instances, by object identity                  *)
(* chist   per Customer instance, the calls that derived it from the       *)
(*         Customer.create at the head of its chain                        *)
(* _customers  InMemoryCustomerRepository._customers, as heap indices      *)
(* _orders     InMemoryOrderRepository._orders, as heap indices            *)
(* latest  per repository, the <<id, instance>> pairs of the latest save   *)
(*         call made with each id                                          *)

Heap ==
    [orders |-> orders, lists |-> lists, customers |-> customers,
     _customers |-> _customers, _orders |-> _orders]

NoOrder == [status |-> None]

\* the record of the latest call: the operation, the receiver (a heap index, 0 for a
\* class-level call), the arguments, the receiver's fields and pending events before
\* the call, and the outcome r
Call(op, recv, args, r) ==
    [op |-> op, recv |-> recv, args |-> args,
     pre |-> IF recv = 0 THEN NoOrder ELSE orders[recv],
     pre_events |-> IF recv = 0 THEN <<>> ELSE lists[orders[recv]._domain_events],
     raised |-> r.raised, exc |-> r.exc, ret |-> r.ret, value |-> r.value]

Init ==
    /\ orders = <<>>
    /\ lists = <<>>
    /\ hist = <<>>
    /\ clock = 0
    /\ uuids = 0
    /\ last = [op |-> "init", recv |-> 0, args |-> <<>>, pre |-> NoOrder,
               pre_events |-> <<>>, raised |-> FALSE, exc |-> NoExc, ret |-> 0,
               value |-> None]
    /\ customers = <<>>
    /\ chist = <<>>
    /\ _customers = <<>>
    /\ _orders = <<>>
    /\ latest = [customers |-> {}, orders |-> {}]
    /\ moneys = <<>>
    /\ requests = <<>>
    /\ emitted = <<>>
    /\ collected = <<>>
    /\ tasks = <<>>
    /\ rows = {}

\* the pending events of the instance at heap index i
Pending(i) == lists[orders[i]._domain_events]

\* the step of a call with result r: the heap the call leaves becomes the heap; h is
\* the history of the instance returned, n and k count the clock readings and the
\* uuid4() calls of a call that returns
Step(op, recv, args, r, h, n, k) ==
    /\ orders' = r.heap.orders
    /\ lists' = r.heap.lists
    /\ last' = Call(op, recv, args, r)
    /\ IF r.raised
       THEN UNCHANGED <<hist, clock, uuids>>
       ELSE /\ hist' = IF r.ret = 0 THEN hist ELSE Append(hist, h)
            /\ clock' = clock + n
            /\ uuids' = uuids + k
    /\ UNCHANGED <<customers, chist, _customers, _orders, latest>>
    /\ UNCHANGED otherVars

\* Order.create(order_id, customer_id, total_amount, details): the aggregate the
\* model follows enters the empty heap
Create ==
    /\ Len(orders) = 0
    /\ Len(customers) = 0
    /\ \E u \in OrderUUIDs, c \in CustomerUUIDs, m \in MoneyValues, d \in DetailsArgs :
           Step("create", 0, <<OrderId(u), CustomerId(c), m, d>>,
                create(Heap, OrderId(u), CustomerId(c), m, d,
                       clock + 1, clock + 2, clock + 3, uuids + 1),
                <<"create">>, 3, 1)

\* o.confirm()
Confirm ==
    /\ Len(orders) < MaxOrders
    /\ \E i \in 1 .. Len(orders) :
           Step("confirm", i, <<>>,
                confirm(Heap, i, clock + 1, clock + 2, uuids + 1),
                Append(hist[i], "confirm"), 2, 1)

\* o.ship()
Ship ==
    /\ Len(orders) < MaxOrders
    /\ \E i \in 1 .. Len(orders) :
           Step("ship", i, <<>>,
                ship(Heap, i, clock + 1, clock + 2, uuids + 1),
                Append(hist[i], "ship"), 2, 1)

\* o.deliver()
Deliver ==
    /\ Len(orders) < MaxOrders
    /\ \E i \in 1 .. Len(orders) :
           Step("deliver", i, <<>>,
                deliver(Heap, i, clock + 1, clock + 2, uuids + 1),
                Append(hist[i], "deliver"), 2, 1)

\* o.cancel() and o.cancel(reason)
Cancel ==
    /\ Len(orders) < MaxOrders
    /\ \E i \in 1 .. Len(orders), reason \in ReasonArgs :
           Step("cancel", i, <<reason>>,
                cancel(Heap, i, reason, clock + 1, clock + 2, uuids + 1),
                Append(hist[i], "cancel"), 2, 1)

\* o.can_be_cancelled()
CanBeCancelled ==
    \E i \in 1 .. Len(orders) :
        Step("can_be_cancelled", i, <<>>,
             Return(Heap, 0, can_be_cancelled(Heap, i)), <<>>, 0, 0)

\* o.collect_domain_events()
CollectDomainEvents ==
    \E i \in 1 .. Len(orders) :
        /\ orders' = collect_domain_events(Heap, i).heap.orders
        /\ lists' = collect_domain_events(Heap, i).heap.lists
        /\ last' = Call("collect_domain_events", i, <<>>, collect_domain_events(Heap, i))
        /\ hist' = [hist EXCEPT ![i] = <<"collect">>]
        /\ UNCHANGED <<clock, uuids, customers, chist, _customers, _orders, latest>>
        /\ UNCHANGED otherVars

\* repository._model_to_entity(model), for a row of the orders table: the aggregate
\* the model follows is loaded into the empty heap
ModelToEntity ==
    /\ Len(orders) = 0
    /\ \E model \in OrderRows :
           Step("_model_to_entity", 0, <<model>>, _model_to_entity(Heap, model),
                <<"load">>, 0, 0)

\* the record of the latest call, for a call on a Customer instance
CustomerCall(op, recv, args, r) ==
    [op |-> op, recv |-> recv, args |-> args,
     pre |-> IF recv = 0 THEN NoOrder ELSE customers[recv],
     pre_events |-> IF recv = 0 THEN <<>> ELSE lists[customers[recv]._domain_events],
     raised |-> r.raised, exc |-> r.exc, ret |-> r.ret, value |-> r.value]

\* the pending events of the Customer instance at heap index i
CustomerPending(i) == lists[customers[i]._domain_events]

\* the step of a call on a Customer with result r: h is the chain of the instance
\* returned, n and k count the clock readings and the uuid4() calls
CustomerStep(op, recv, args, r, h, n, k) ==
    /\ customers' = r.heap.customers
    /\ lists' = r.heap.lists
    /\ last' = CustomerCall(op, recv, args, r)
    /\ IF r.raised
       THEN UNCHANGED <<chist, clock, uuids>>
       ELSE /\ chist' = IF r.ret = 0 THEN chist ELSE Append(chist, h)
            /\ clock' = clock + n
            /\ uuids' = uuids + k
    /\ UNCHANGED <<orders, hist, _customers, _orders, latest>>
    /\ UNCHANGED otherVars

\* Customer.create(customer_id, name, email, preferences=...): the aggregate the
\* model follows enters the empty heap
CustomerCreate ==
    /\ Len(customers) = 0
    /\ Len(orders) = 0
    /\ \E u \in NewCustomerUUIDs, name \in Names, email \in EmailValues,
          p \in PreferencesArgs :
           CustomerStep("Customer.create", 0, <<CustomerId(u), name, email, p>>,
                Customer_create(Heap, CustomerId(u), name, email, None, None, p,
                                clock + 1, clock + 2, clock + 3, uuids + 1),
                <<"create">>, 3, 1)

\* c.deactivate() and c.deactivate(reason)
Deactivate ==
    /\ Len(customers) < MaxCustomers
    /\ \E i \in 1 .. Len(customers), reason \in DeactivateReasonArgs :
           CustomerStep("deactivate", i, <<reason>>,
                deactivate(Heap, i, reason, clock + 1, clock + 2, uuids + 1),
                Append(chist[i], "deactivate"), 2, 1)

\* c.update_address(address)
UpdateAddress ==
    /\ Len(customers) < MaxCustomers
    /\ \E i \in 1 .. Len(customers), address \in Addresses :
           CustomerStep("update_address", i, <<address>>,
                update_address(Heap, i, address, clock + 1),
                Append(chist[i], "update_address"), 1, 0)

\* c.update_phone(phone)
UpdatePhone ==
    /\ Len(customers) < MaxCustomers
    /\ \E i \in 1 .. Len(customers), phone \in PhoneNumbers :
           CustomerStep("update_phone", i, <<phone>>,
                update_phone(Heap, i, phone, clock + 1),
                Append(chist[i], "update_phone"), 1, 0)

\* c.collect_domain_events()
CustomerCollectDomainEvents ==
    \E i \in 1 .. Len(customers) :
        CustomerStep("Customer.collect_domain_events", i, <<>>,
             Customer_collect_domain_events(Heap, i), <<>>, 0, 0)

\* the life of an order built by Order.create
Next ==
    \/ Create
    \/ Confirm
    \/ Ship
    \/ Deliver
    \/ Cancel
    \/ CanBeCancelled
    \/ CollectDomainEvents

Spec == Init /\ [][Next]_vars

\* every way an Order instance comes to exist: the factory, the repository's
\* mapping of a row, and the transitions
NextLoad ==
    \/ ModelToEntity
    \/ Create
    \/ Confirm
    \/ Ship
    \/ Deliver
    \/ Cancel
    \/ CanBeCancelled

SpecLoad == Init /\ [][NextLoad]_vars

\* a == b for two Order instances
OrderEq ==
    \E i, j \in 1 .. Len(orders) :
        Step("__eq__", i, <<j>>, Return(Heap, 0, Order___eq__(Heap, i, j)), <<>>, 0, 0)

\* hash(a) for an Order instance
OrderHash ==
    \E i \in 1 .. Len(orders) :
        Step("__hash__", i, <<>>, Order___hash__(Heap, i), <<>>, 0, 0)

\* a == b for two Customer instances
CustomerEq ==
    \E i, j \in 1 .. Len(customers) :
        CustomerStep("Customer.__eq__", i, <<j>>,
             Return(Heap, 0, Customer___eq__(Heap, i, j)), <<>>, 0, 0)

\* hash(a) for a Customer instance
CustomerHash ==
    \E i \in 1 .. Len(customers) :
        CustomerStep("Customer.__hash__", i, <<>>, Customer___hash__(Heap, i), <<>>, 0, 0)

\* the record of the latest call, for a call on a use case or a repository: pre holds
\* the repositories' lists and the sizes of the heap before the call
UseCaseCall(op, args, r) ==
    [op |-> op, recv |-> 0, args |-> args,
     pre |-> [_customers |-> _customers, _orders |-> _orders,
              customers |-> Len(customers), orders |-> Len(orders)],
     pre_events |-> <<>>,
     raised |-> r.raised, exc |-> r.exc, ret |-> r.ret, value |-> r.value]

\* pairs with the pair of id replaced by <<id, instance>>
Saved(pairs, id, instance) == {q \in pairs : q[1] # id} \cup {<<id, instance>>}

\* the step of a use case or repository call with result r: every instance the call
\* constructed starts its history; n and k count the clock readings and the uuid4()
\* calls of a call that returns
UseCaseStep(op, args, r, n, k) ==
    /\ orders' = r.heap.orders
    /\ lists' = r.heap.lists
    /\ customers' = r.heap.customers
    /\ _customers' = r.heap._customers
    /\ _orders' = r.heap._orders
    /\ last' = UseCaseCall(op, args, r)
    /\ hist' = IF Len(r.heap.orders) > Len(orders) THEN Append(hist, <<"create">>)
               ELSE hist
    /\ chist' = IF Len(r.heap.customers) > Len(customers) THEN Append(chist, <<"create">>)
                ELSE chist
    /\ IF r.raised
       THEN UNCHANGED <<clock, uuids>>
       ELSE /\ clock' = clock + n
            /\ uuids' = uuids + k
    /\ UNCHANGED otherVars

\* the ids of the Customer instances on the heap
CustomerIds == {customers[i].id : i \in 1 .. Len(customers)}

\* the ids of the Order instances on the heap
OrderIds == {orders[i].id : i \in 1 .. Len(orders)}

\* CreateCustomerUseCase(customer_repository).execute(command), while no Order has
\* been constructed
CreateCustomerExecute ==
    /\ Len(customers) < MaxCustomers
    /\ Len(orders) = 0
    /\ \E command \in CreateCustomerCommands :
           LET r == CreateCustomerUseCase_execute(Heap, command, clock + 1, clock + 2,
                                                  clock + 3, uuids + 1, uuids + 2)
           IN  /\ UseCaseStep("CreateCustomerUseCase.execute", <<command>>, r, 3, 2)
               /\ latest' = IF r.raised THEN latest
                             ELSE [latest EXCEPT !.customers =
                                      Saved(@, r.heap.customers[r.ret].id, r.ret)]

\* CreateOrderUseCase(order_repository, customer_repository).execute(command)
CreateOrderExecute ==
    /\ Len(orders) < MaxOrders
    /\ Cardinality(OrderIds) < MaxCreated
    /\ \E c \in CustomerIds \cup {UnknownUUID}, o \in CreateOrderCommands :
           LET command == [customer_id |-> c, total_amount |-> o.total_amount,
                           currency |-> o.currency, details |-> o.details]
               r == CreateOrderUseCase_execute(Heap, command, clock + 1, clock + 2,
                                               clock + 3, uuids + 1, uuids + 2)
           IN  /\ UseCaseStep("CreateOrderUseCase.execute", <<command>>, r, 3, 2)
               /\ latest' = IF r.raised THEN latest
                             ELSE [latest EXCEPT !.orders =
                                      Saved(@, r.heap.orders[r.ret].id, r.ret)]

\* GetCustomerOrdersQuery(order_repository).execute(customer_id), with the UUID of a
\* customer, or None
GetCustomerOrdersExecute ==
    \E customer_id \in {UUID(c) : c \in CustomerIds} \cup {NoneValue} :
        /\ UseCaseStep("GetCustomerOrdersQuery.execute", <<customer_id>>,
                       GetCustomerOrdersQuery_execute(Heap, customer_id), 0, 0)
        /\ UNCHANGED latest

\* customer_repository.save(customer), for a Customer instance of the heap
CustomerSave ==
    \E i \in 1 .. Len(customers) :
        /\ UseCaseStep("InMemoryCustomerRepository.save", <<i>>,
                       Return(InMemoryCustomerRepository_save(Heap, i), i, None), 0, 0)
        /\ latest' = [latest EXCEPT !.customers = Saved(@, customers[i].id, i)]

\* order_repository.save(order), for an Order instance of the heap
OrderSave ==
    \E i \in 1 .. Len(orders) :
        /\ UseCaseStep("InMemoryOrderRepository.save", <<i>>,
                       Return(InMemoryOrderRepository_save(Heap, i), i, None), 0, 0)
        /\ latest' = [latest EXCEPT !.orders = Saved(@, orders[i].id, i)]

\* customer_repository.find_by_id(customer_id)
CustomerFindById ==
    \E u \in CustomerIds \cup {UnknownUUID} :
        /\ UseCaseStep("InMemoryCustomerRepository.find_by_id", <<u>>,
                       Return(Heap, InMemoryCustomerRepository_find_by_id(Heap, u), None),
                       0, 0)
        /\ UNCHANGED latest

\* order_repository.find_by_id(order_id)
OrderFindById ==
    \E u \in OrderIds \cup {UnknownUUID} :
        /\ UseCaseStep("InMemoryOrderRepository.find_by_id", <<u>>,
                       Return(Heap, InMemoryOrderRepository_find_by_id(Heap, u), None),
                       0, 0)
        /\ UNCHANGED latest

\* the two repositories: customers created through CreateCustomerUseCase, deactivated
\* and saved again, or an order built by Order.create, confirmed and saved; and the
\* lookups by id
NextRepositories ==
    \/ CreateCustomerExecute
    \/ Deactivate
    \/ CustomerSave
    \/ CustomerFindById
    \/ Create
    \/ Confirm
    \/ OrderSave
    \/ OrderFindById

SpecRepositories == Init /\ [][NextRepositories]_vars

\* orders placed through CreateOrderUseCase for a customer that was built by
\* Customer.create and saved, active or deactivated, and the query for them
NextOrderUseCases ==
    \/ CustomerCreate
    \/ Deactivate
    \/ CustomerSave
    \/ CreateOrderExecute
    \/ GetCustomerOrdersExecute

SpecOrderUseCases == Init /\ [][NextOrderUseCases]_vars

\* aggregates compared and hashed: the instances derived from one factory call
NextEntity ==
    \/ Create
    \/ Confirm
    \/ Ship
    \/ Deliver
    \/ Cancel
    \/ CustomerCreate
    \/ Deactivate
    \/ UpdateAddress
    \/ UpdatePhone
    \/ OrderEq
    \/ OrderHash
    \/ CustomerEq
    \/ CustomerHash

SpecEntity == Init /\ [][NextEntity]_vars

\* the life of an aggregate, an Order or a Customer, built by its factory
NextAggregates ==
    \/ Create
    \/ Confirm
    \/ Ship
    \/ Deliver
    \/ Cancel
    \/ CustomerCreate
    \/ Deactivate
    \/ UpdateAddress
    \/ UpdatePhone
    \/ CustomerCollectDomainEvents

SpecAggregates == Init /\ [][NextAggregates]_vars

----------------------------------------------------------------------------
(* The event list of an aggregate as its callers reach it: add, collect   *)
(* and clear on any instance, between transitions.                         *)

\* o.clear_domain_events()
ClearDomainEvents ==
    \E i \in 1 .. Len(orders) :
        Step("clear_domain_events", i, <<>>,
             Return(clear_domain_events(Heap, i), 0, None), <<>>, 0, 0)

\* o.add_domain_event(event), with an event a caller constructed
AddDomainEvent ==
    \E i \in 1 .. Len(orders) :
        /\ Len(Pending(i)) < MaxEvents
        /\ LET event == OrderStatusChanged(0, 0, orders[i].order_id,
                                           orders[i].customer_id, orders[i].status,
                                           orders[i].status)
           IN  Step("add_domain_event", i, <<event>>,
                    Return(add_domain_event(Heap, i, event), 0, None), <<>>, 0, 0)

\* c.clear_domain_events()
CustomerClearDomainEvents ==
    \E i \in 1 .. Len(customers) :
        CustomerStep("Customer.clear_domain_events", i, <<>>,
             Return(Customer_clear_domain_events(Heap, i), 0, None), <<>>, 0, 0)

\* c.add_domain_event(event), with an event a caller constructed
CustomerAddDomainEvent ==
    \E i \in 1 .. Len(customers) :
        /\ Len(CustomerPending(i)) < MaxEvents
        /\ LET event == CustomerDeactivated(0, 0, customers[i].customer_id, "noted")
           IN  CustomerStep("Customer.add_domain_event", i, <<event>>,
                    Return(Customer_add_domain_event(Heap, i, event), 0, None),
                    <<>>, 0, 0)

\* the transitions, while fewer than MaxChain instances exist
ChainConfirm == Len(orders) < MaxChain /\ Confirm
ChainCancel == Len(orders) < MaxChain /\ Cancel
ChainDeactivate == Len(customers) < MaxChain /\ Deactivate

NextEvents ==
    \/ Create
    \/ ChainConfirm
    \/ ChainCancel
    \/ CollectDomainEvents
    \/ ClearDomainEvents
    \/ AddDomainEvent
    \/ CustomerCreate
    \/ ChainDeactivate
    \/ CustomerCollectDomainEvents
    \/ CustomerClearDomainEvents
    \/ CustomerAddDomainEvent

SpecEvents == Init /\ [][NextEvents]_vars

----------------------------------------------------------------------------
(* Linear use of an order: every operation is called on the instance that  *)
(* was returned most recently, the last one on the heap. `emitted` lists   *)
(* the event ids of the events the calls that returned constructed,        *)
(* `collected` those of the events collect_domain_events returned.         *)

\* the step of a call with result r that constructs events with the ids `ids` when it
\* returns
LinearStep(op, recv, args, r, h, n, k, ids) ==
    /\ orders' = r.heap.orders
    /\ lists' = r.heap.lists
    /\ last' = Call(op, recv, args, r)
    /\ IF r.raised
       THEN UNCHANGED <<hist, clock, uuids, emitted>>
       ELSE /\ hist' = Append(hist, h)
            /\ clock' = clock + n
            /\ uuids' = uuids + k
            /\ emitted' = emitted \o ids
    /\ UNCHANGED <<customers, chist, _customers, _orders, latest, moneys, requests,
                   collected, taskVars>>

\* Order.create(...)
LinearCreate ==
    /\ Len(orders) = 0
    /\ \E u \in OrderUUIDs, c \in CustomerUUIDs, m \in MoneyValues, d \in DetailsArgs :
           LinearStep("create", 0, <<OrderId(u), CustomerId(c), m, d>>,
                      create(Heap, OrderId(u), CustomerId(c), m, d,
                             clock + 1, clock + 2, clock + 3, uuids + 1),
                      <<"create">>, 3, 1, <<uuids + 1>>)

\* order = order.confirm()
LinearConfirm ==
    /\ Len(orders) \in 1 .. MaxOrders - 1
    /\ LinearStep("confirm", Len(orders), <<>>,
                  confirm(Heap, Len(orders), clock + 1, clock + 2, uuids + 1),
                  Append(hist[Len(orders)], "confirm"), 2, 1, <<uuids + 1>>)

\* order = order.ship()
LinearShip ==
    /\ Len(orders) \in 1 .. MaxOrders - 1
    /\ LinearStep("ship", Len(orders), <<>>,
                  ship(Heap, Len(orders), clock + 1, clock + 2, uuids + 1),
                  Append(hist[Len(orders)], "ship"), 2, 1, <<uuids + 1>>)

\* order = order.deliver()
LinearDeliver ==
    /\ Len(orders) \in 1 .. MaxOrders - 1
    /\ LinearStep("deliver", Len(orders), <<>>,
                  deliver(Heap, Len(orders), clock + 1, clock + 2, uuids + 1),
                  Append(hist[Len(orders)], "deliver"), 2, 1, <<uuids + 1>>)

\* order = order.cancel() and order = order.cancel(reason)
LinearCancel ==
    /\ Len(orders) \in 1 .. MaxOrders - 1
    /\ \E reason \in ReasonArgs :
           LinearStep("cancel", Len(orders), <<reason>>,
                      cancel(Heap, Len(orders), reason, clock + 1, clock + 2, uuids + 1),
                      Append(hist[Len(orders)], "cancel"), 2, 1, <<uuids + 1>>)

\* order.collect_domain_events()
LinearCollect ==
    /\ Len(orders) >= 1
    /\ LET r == collect_domain_events(Heap, Len(orders))
       IN  /\ orders' = r.heap.orders
           /\ lists' = r.heap.lists
           /\ last' = Call("collect_domain_events", Len(orders), <<>>, r)
           /\ collected' = collected \o [k \in 1 .. Len(r.value) |-> r.value[k].event_id]
    /\ UNCHANGED <<hist, clock, uuids, customers, chist, _customers, _orders, latest,
                   moneys, requests, emitted, taskVars>>

NextLinear ==
    \/ LinearCreate
    \/ LinearConfirm
    \/ LinearShip
    \/ LinearDeliver
    \/ LinearCancel
    \/ LinearCollect

SpecLinear == Init /\ [][NextLinear]_vars

----------------------------------------------------------------------------
(* CreateCustomerUseCase.execute as tasks of one event loop. A task gives  *)
(* way to the others only where an await suspends. The coroutines of the   *)
(* in-memory repository contain no await, so execute runs to its end in    *)
(* one step (CreateCustomerExecute). Those of PostgresCustomerRepository   *)
(* await the database, so a task stops at find_by_email and at save;       *)
(* `rows` is the customers table, whose email column is declared unique.   *)
(* The use cases of one program are constructed with one of the two        *)
(* repositories.                                                           *)

\* the exceptions of the database layer
IntegrityError ==
    [type |-> "IntegrityError", message |-> <<"duplicate key value">>,
     error_code |-> None, rule_name |-> None]
DataError ==
    [type |-> "DataError", message |-> <<"invalid input for query argument">>,
     error_code |-> None, rule_name |-> None]

\* PostgresCustomerRepository.find_by_email: the row whose email is `email`, as a
\* set of at most one row
PostgresCustomerRepository_find_by_email(table, email) ==
    {row \in table : row.email = email}

\* save that inserts into a table without the unique constraint on email
PostgresCustomerRepository_save_unconstrained(table, H, customer, bound) ==
    LET entity == H.customers[customer]
        model == [id |-> entity.id, name |-> entity.name, email |-> str(entity.email),
                  is_active |-> entity.is_active, preferences |-> entity.preferences]
    IN  IF ~bound THEN [raised |-> TRUE, exc |-> DataError, table |-> table]
        ELSE [raised |-> FALSE, exc |-> NoExc, table |-> table \cup {model}]

\* PostgresCustomerRepository.save: _entity_to_model, session.add and commit. The
\* model is given the Email object for its String column: `bound` tells whether the
\* driver binds it, as its string, or rejects it. The insert violates a constraint
\* when a row has the same id (primary key) or the same email (unique).
PostgresCustomerRepository_save(table, H, customer, bound) ==
    LET entity == H.customers[customer]
        model == [id |-> entity.id, name |-> entity.name, email |-> str(entity.email),
                  is_active |-> entity.is_active, preferences |-> entity.preferences]
    IN  IF ~bound THEN [raised |-> TRUE, exc |-> DataError, table |-> table]
        ELSE IF \E row \in table : row.id = model.id \/ row.email = model.email
        THEN [raised |-> TRUE, exc |-> IntegrityError, table |-> table]
        ELSE [raised |-> FALSE, exc |-> NoExc, table |-> table \cup {model}]

\* a task is started that calls execute(command) of a use case constructed with a
\* PostgresCustomerRepository; it runs up to the await of find_by_email
TaskExecute ==
    /\ Len(tasks) < MaxTasks
    /\ Len(_customers) = 0
    /\ \E command \in TaskCommands :
           tasks' = Append(tasks, [command |-> command, pc |-> "find_by_email",
                                   customer |-> 0, exc |-> NoExc])
    /\ UNCHANGED <<aggregateVars, last, moneys, requests, linearVars, rows>>

\* find_by_email returns to the task, which runs up to the await of save: lines
\* 24 to 38 of execute. The entity find_by_email maps a row to is only tested for
\* being there.
TaskFindByEmail ==
    /\ Len(customers) < MaxCustomers
    /\ \E t \in 1 .. Len(tasks) :
           /\ tasks[t].pc = "find_by_email"
           /\ LET command == tasks[t].command
                  existing == PostgresCustomerRepository_find_by_email(rows,
                                                                      command.email)
                  email == Email(command.email)
                  customer == Customer_create(Heap, CustomerId(uuids + 1), command.name,
                                  email.value, None, None,
                                  IF command.preferences = NoDict
                                     \/ command.preferences[1] = EmptyDict
                                  THEN <<EmptyDict>> ELSE command.preferences,
                                  clock + 1, clock + 2, clock + 3, uuids + 2)
                  exc == IF existing # {}
                         THEN ValueError(<<"Customer with email ">> \o command.email
                                         \o <<" ", "already exists">>)
                         ELSE IF email.raised THEN email.exc
                         ELSE IF customer.raised THEN customer.exc
                         ELSE NoExc
              IN  IF exc # NoExc
                  THEN /\ tasks' = [tasks EXCEPT ![t].pc = "raised", ![t].exc = exc]
                       /\ UNCHANGED <<customers, lists, chist, clock, uuids>>
                  ELSE /\ tasks' = [tasks EXCEPT ![t].pc = "save",
                                                 ![t].customer = customer.ret]
                       /\ customers' = customer.heap.customers
                       /\ lists' = customer.heap.lists
                       /\ chist' = Append(chist, <<"create">>)
                       /\ clock' = clock + 3
                       /\ uuids' = uuids + 2
    /\ UNCHANGED <<orders, hist, last, _customers, _orders, latest, moneys, requests,
                   linearVars, rows>>

\* save returns to the task, or raises in it
TaskSave ==
    \E t \in 1 .. Len(tasks), bound \in BOOLEAN :
        /\ tasks[t].pc = "save"
        /\ LET r == PostgresCustomerRepository_save(rows, Heap, tasks[t].customer, bound)
           IN  /\ rows' = r.table
               /\ tasks' = [tasks EXCEPT
                                ![t].pc = IF r.raised THEN "raised" ELSE "returned",
                                ![t].exc = r.exc]
        /\ UNCHANGED <<aggregateVars, last, moneys, requests, linearVars>>

\* execute of a use case constructed with the in-memory repository: no task gets
\* a step between its find_by_email and its save
InMemoryExecute == Len(tasks) = 0 /\ CreateCustomerExecute

NextTasks ==
    \/ InMemoryExecute
    \/ TaskExecute
    \/ TaskFindByEmail
    \/ TaskSave

SpecTasks == Init /\ [][NextTasks]_vars

----------------------------------------------------------------------------
(* Value objects: Money instances live on the heap `moneys`; the          *)
(* identifiers are compared as values.                                     *)

\* the call on Money instances, and the outcome r; pre is the heap before the call
MoneyCall(op, recv, args, r) ==
    [op |-> op, recv |-> recv, args |-> args, pre |-> moneys, pre_events |-> <<>>,
     raised |-> r.raised, exc |-> r.exc,
     ret |-> IF r.raised THEN 0 ELSE Len(moneys) + 1,
     value |-> IF r.raised THEN None ELSE r.value]

\* the step of a call that constructs a Money unless it raises
MoneyStep(op, recv, args, r) ==
    /\ moneys' = IF r.raised THEN moneys ELSE Append(moneys, r.value)
    /\ last' = MoneyCall(op, recv, args, r)
    /\ UNCHANGED <<aggregateVars, requests, linearVars, taskVars>>

\* Money(amount, currency)
MoneyNew ==
    /\ Len(moneys) < MaxMoneys
    /\ \E a \in Amounts, c \in MoneyCurrencies :
           MoneyStep("Money", 0, <<a, c>>, Money(a, c))

\* m.add(other)
MoneyAdd ==
    /\ Len(moneys) < MaxMoneys
    /\ \E i, j \in 1 .. Len(moneys) :
           /\ moneys[i].amount <= MaxAmount /\ moneys[j].amount <= MaxAmount
           /\ MoneyStep("Money.add", i, <<j>>, Money_add(moneys[i], moneys[j]))

\* m.subtract(other)
MoneySubtract ==
    /\ Len(moneys) < MaxMoneys
    /\ \E i, j \in 1 .. Len(moneys) :
           /\ moneys[i].amount <= MaxAmount /\ moneys[j].amount <= MaxAmount
           /\ MoneyStep("Money.subtract", i, <<j>>,
                        Money_subtract(moneys[i], moneys[j]))

\* m.multiply(factor)
MoneyMultiply ==
    /\ Len(moneys) < MaxMoneys
    /\ \E i \in 1 .. Len(moneys), factor \in Factors :
           /\ moneys[i].amount <= MaxAmount
           /\ MoneyStep("Money.multiply", i, <<factor>>,
                        Money_multiply(moneys[i], factor))

\* the identifier values
Identifiers ==
    {CustomerId(u) : u \in IdentifierUUIDs} \cup {OrderId(u) : u \in IdentifierUUIDs}
        \cup {ProductId(u) : u \in IdentifierUUIDs}

\* a == b for two identifiers
IdentifierEq ==
    \E a, b \in Identifiers :
        /\ last' = [op |-> "Identifier.__eq__", recv |-> 0, args |-> <<a, b>>,
                    pre |-> moneys, pre_events |-> <<>>, raised |-> FALSE,
                    exc |-> NoExc, ret |-> 0, value |-> Identifier___eq__(a, b)]
        /\ UNCHANGED <<aggregateVars, moneys, requests, linearVars, taskVars>>

NextValueObjects ==
    \/ MoneyNew
    \/ MoneyAdd
    \/ MoneySubtract
    \/ MoneyMultiply
    \/ IdentifierEq

SpecValueObjects == Init /\ [][NextValueObjects]_vars

----------------------------------------------------------------------------
(* Correlation ids (infrastructure/logging/correlation.py). A request is   *)
(* handled by its own task; `context` is the value of correlation_id_var  *)
(* in that task's context, which the task that call_next starts for the   *)
(* route handler copies.                                                   *)

CORRELATION_ID_HEADER == "X-Correlation-ID"
REQUEST_ID_HEADER == "X-Request-ID"
TRACE_ID_HEADER == "X-Trace-ID"
AWS_TRACE_ID_HEADER == "X-Amzn-Trace-Id"
AWS_REQUEST_ID_HEADER == "AWS-Request-ID"

\* str.lower() of the header names
lower(name) ==
    CASE name = CORRELATION_ID_HEADER -> "x-correlation-id"
      [] name = REQUEST_ID_HEADER -> "x-request-id"
      [] name = TRACE_ID_HEADER -> "x-trace-id"
      [] name = AWS_TRACE_ID_HEADER -> "x-amzn-trace-id"
      [] name = AWS_REQUEST_ID_HEADER -> "aws-request-id"
      [] OTHER -> name

\* headers.get(key): the value of the first header of that name, compared in lower
\* case, or None
Headers_get(headers, key) ==
    LET values == SelectSeq(headers, LAMBDA h : h[1] = lower(key))
    IN  IF values = <<>> THEN None ELSE Head(values)[2]

\* the truth value of an optional string
Truthy(v) == v # None /\ v # ""

\* CorrelationContext.generate(): str(uuid.uuid4()), u the UUID value
CorrelationContext_generate(u) == ToString(u)

\* extract_from_request that checks the header names in the reverse order
CorrelationContext_extract_from_request_reversed(headers) ==
    LET headers_to_check ==
            <<AWS_REQUEST_ID_HEADER, AWS_TRACE_ID_HEADER, TRACE_ID_HEADER,
              REQUEST_ID_HEADER, CORRELATION_ID_HEADER>>
        found == SelectSeq(headers_to_check,
                           LAMBDA header : Truthy(Headers_get(headers, header)))
    IN  IF found = <<>> THEN None ELSE Headers_get(headers, Head(found))

\* CorrelationContext.extract_from_request(request), from request.headers
CorrelationContext_extract_from_request(headers) ==
    LET headers_to_check ==
            <<CORRELATION_ID_HEADER, REQUEST_ID_HEADER, TRACE_ID_HEADER,
              AWS_TRACE_ID_HEADER, AWS_REQUEST_ID_HEADER>>
        found == SelectSeq(headers_to_check,
                           LAMBDA header : Truthy(Headers_get(headers, header)))
    IN  IF found = <<>> THEN None ELSE Headers_get(headers, Head(found))

\* CorrelationContext.inject_to_response: response.headers[name] = correlation_id
\* replaces the first header of that name and drops the others, or appends one
CorrelationContext_inject_to_response(headers, correlation_id) ==
    LET key == lower(CORRELATION_ID_HEADER)
        at == {k \in 1 .. Len(headers) : headers[k][1] = key}
    IN  IF at = {} THEN Append(headers, <<key, correlation_id>>)
        ELSE LET first == CHOOSE k \in at : \A j \in at : k <= j
                 kept == {k \in 1 .. Len(headers) : k \notin at \/ k = first}
                 Nth[n \in 0 .. Len(headers)] ==
                     IF n = 0 THEN 0
                     ELSE CHOOSE k \in kept : k > Nth[n - 1] /\
                              \A j \in kept : j > Nth[n - 1] => k <= j
             IN  [n \in 1 .. Cardinality(kept) |->
                     IF Nth[n] = first THEN <<key, correlation_id>>
                     ELSE headers[Nth[n]]]

\* a request arrives and the server starts the task that calls dispatch
Request ==
    /\ Len(requests) < MaxRequests
    /\ \E headers \in RequestHeaders, context \in StartContexts :
           requests' = Append(requests,
                              [headers |-> headers, context |-> context,
                               pc |-> "dispatch", correlation_id |-> None,
                               state |-> None, generated |-> FALSE, read |-> None,
                               response |-> <<>>])
    /\ UNCHANGED <<aggregateVars, last, moneys, linearVars, taskVars>>

\* CorrelationMiddleware.dispatch up to the await of call_next(request)
Dispatch ==
    \E r \in 1 .. Len(requests) :
        /\ requests[r].pc = "dispatch"
        /\ LET extracted == CorrelationContext_extract_from_request(requests[r].headers)
               correlation_id == IF ~Truthy(extracted)
                                 THEN CorrelationContext_generate(uuids + 1)
                                 ELSE extracted
           IN  /\ requests' = [requests EXCEPT ![r].correlation_id = correlation_id,
                                               ![r].context = correlation_id,
                                               ![r].state = correlation_id,
                                               ![r].generated = ~Truthy(extracted),
                                               ![r].pc = "call_next"]
               /\ uuids' = IF ~Truthy(extracted) THEN uuids + 1 ELSE uuids
        /\ UNCHANGED <<orders, lists, hist, clock, last, customers, chist, _customers,
                       _orders, latest, moneys, linearVars, taskVars>>

\* call_next(request): the route handler runs in a task that copied the context of
\* the dispatch task, reads CorrelationContext.get() and returns a response
CallNext ==
    \E r \in 1 .. Len(requests), headers \in HandlerHeaders :
        /\ requests[r].pc = "call_next"
        /\ requests' = [requests EXCEPT ![r].read = requests[r].context,
                                        ![r].response = headers,
                                        ![r].pc = "inject"]
        /\ UNCHANGED <<aggregateVars, last, moneys, linearVars, taskVars>>

\* dispatch after call_next: inject_to_response and return
InjectToResponse ==
    \E r \in 1 .. Len(requests) :
        /\ requests[r].pc = "inject"
        /\ requests' =
               [requests EXCEPT
                   ![r].response =
                       CorrelationContext_inject_to_response(requests[r].response,
                                                             requests[r].correlation_id),
                   ![r].pc = "done"]
        /\ UNCHANGED <<aggregateVars, last, moneys, linearVars, taskVars>>

NextCorrelation ==
    \/ Request
    \/ Dispatch
    \/ CallNext
    \/ InjectToResponse

SpecCorrelation == Init /\ [][NextCorrelation]_vars

TypeOK ==
    /\ Len(orders) <= MaxOrders
    /\ Len(hist) = Len(orders)
    /\ \A i \in 1 .. Len(orders) : orders[i]._domain_events \in 1 .. Len(lists)
    /\ Len(customers) <= MaxCustomers
    /\ Len(chist) = Len(customers)
    /\ \A i \in 1 .. Len(customers) : customers[i]._domain_events \in 1 .. Len(lists)

----------------------------------------------------------------------------
(* The order state machine as the specification documents it (section 4.2) *)

TransitionOps == {"confirm", "ship", "deliver", "cancel"}

\* operation -> the <<current, next>> pairs of the transition table
TransitionTable(op) ==
    CASE op = "confirm" -> {<<PENDING, CONFIRMED>>}
      [] op = "ship" -> {<<CONFIRMED, SHIPPED>>}
      [] op = "deliver" -> {<<SHIPPED, DELIVERED>>}
      [] op = "cancel" -> {<<PENDING, CANCELLED>>, <<CONFIRMED, CANCELLED>>}

\* the statuses in which the table allows the operation
AllowedIn(op) == {p[1] : p \in TransitionTable(op)}

\* operation -> the rule name documented for its failure
DocumentedRule(op) ==
    CASE op = "confirm" -> "OrderConfirmationRule"
      [] op = "ship" -> "OrderShippingRule"
      [] op = "deliver" -> "OrderDeliveryRule"
      [] op = "cancel" -> "OrderCancellationRule"

\* the latest call was a transition that returned
Succeeded == last.op \in TransitionOps /\ ~last.raised

FullChain == <<"create", "confirm", "ship", "deliver">>

----------------------------------------------------------------------------
(* Claims *)

\* C1: a transition that succeeds takes the receiver's status to the returned order's
\* status along a pair of the transition table for that operation: confirm
\* PENDING->CONFIRMED, ship CONFIRMED->SHIPPED, deliver SHIPPED->DELIVERED, cancel
\* PENDING->CANCELLED or CONFIRMED->CANCELLED. No pair leaves DELIVERED or CANCELLED,
\* and none enters CANCELLED from SHIPPED or DELIVERED.
C1_StatusFollowsTable ==
    Succeeded =>
        /\ last.ret \in 1 .. Len(orders)
        /\ <<last.pre.status, orders[last.ret].status>> \in TransitionTable(last.op)

\* the chain create, confirm, ship, deliver has just delivered
C1_Witness ==
    /\ last.op = "deliver"
    /\ ~last.raised
    /\ last.pre.status = SHIPPED
    /\ hist[last.ret] = FullChain

\* C2: an operation invoked in a status for which the table has no row raises
\* BusinessRuleViolationError with the rule name documented for the operation, and
\* the receiver's status is what it was.
C2_FailsWithDocumentedRule ==
    (last.op \in TransitionOps /\ last.pre.status \notin AllowedIn(last.op)) =>
        /\ last.raised
        /\ last.exc.type = "BusinessRuleViolationError"
        /\ last.exc.rule_name = DocumentedRule(last.op)
        /\ orders[last.recv].status = last.pre.status

\* ship was refused on an order that is not CONFIRMED
C2_Witness ==
    /\ last.op = "ship"
    /\ last.raised
    /\ last.pre.status \in {PENDING, SHIPPED, DELIVERED, CANCELLED}
    /\ orders[last.recv].status = last.pre.status

\* C3: the pending events of the order a successful transition returns are the
\* receiver's pending events at the call, in the same order, followed by exactly one
\* event that was not among them.
C3_EventsCarriedPlusOne ==
    Succeeded =>
        LET new == Pending(last.ret)
            old == last.pre_events
        IN  /\ Len(new) = Len(old) + 1
            /\ SubSeq(new, 1, Len(old)) = old
            /\ \A k \in 1 .. Len(old) : old[k].event_id # new[Len(new)].event_id

\* ship on a confirmed order whose OrderCreated was collected before the confirm:
\* one event is pending on the receiver, none of the collected ones
C3_Witness ==
    /\ last.op = "ship"
    /\ ~last.raised
    /\ Len(last.pre_events) = 1
    /\ last.pre_events[1].event_type = "OrderStatusChanged"
    /\ Len(Pending(last.ret)) = 2

\* C4: after a successful transition the receiver still has the status it had before
\* the call; the returned order is another instance and carries the new status.
C4_ReceiverStatusUnchanged ==
    Succeeded =>
        /\ last.ret # last.recv
        /\ orders[last.recv].status = last.pre.status
        /\ orders[last.ret].status # last.pre.status

\* a pending order was cancelled: the receiver is PENDING, the returned order CANCELLED
C4_Witness ==
    /\ last.op = "cancel"
    /\ ~last.raised
    /\ orders[last.recv].status = PENDING
    /\ orders[last.ret].status = CANCELLED

\* C5: the order a successful transition returns has the receiver's id, order_id,
\* customer_id, total_amount, details and created_at.
C5_FieldsCarried ==
    Succeeded =>
        LET o == orders[last.ret]
            p == last.pre
        IN  /\ o.id = p.id
            /\ o.order_id = p.order_id
            /\ o.customer_id = p.customer_id
            /\ o.total_amount = p.total_amount
            /\ o.details = p.details
            /\ o.created_at = p.created_at

\* a transition of an order with details and a later updated_at
C5_Witness ==
    /\ last.op = "confirm"
    /\ ~last.raised
    /\ last.pre.details = LaptopDict
    /\ orders[last.ret].details = LaptopDict
    /\ orders[last.ret].updated_at # last.pre.updated_at

\* C6: the event a successful confirm, ship or deliver appends is an
\* OrderStatusChanged from the receiver's status to the returned order's status; the
\* event a successful cancel appends is an OrderCancelled with the receiver's status
\* and the reason supplied, "Customer request" when none is.
C6_EventContents ==
    Succeeded =>
        LET e == Pending(last.ret)[Len(Pending(last.ret))]
        IN  IF last.op = "cancel"
            THEN /\ e.event_type = "OrderCancelled"
                 /\ e.previous_status = last.pre.status
                 /\ e.reason = IF last.args[1] = Omitted THEN "Customer request"
                               ELSE last.args[1]
            ELSE /\ e.event_type = "OrderStatusChanged"
                 /\ e.old_status = last.pre.status
                 /\ e.new_status = orders[last.ret].status

\* a confirmed order was cancelled with a reason of the caller's
C6_Witness ==
    /\ last.op = "cancel"
    /\ ~last.raised
    /\ last.args = <<"Out of stock">>
    /\ last.pre.status = CONFIRMED
    /\ Pending(last.ret)[Len(Pending(last.ret))].reason = "Out of stock"

\* C7: can_be_cancelled() returns TRUE exactly when the status is PENDING or
\* CONFIRMED and leaves the order and its pending events as they were; cancel()
\* returns exactly in those statuses and raises in the others.
C7_CanBeCancelled ==
    /\ last.op = "can_be_cancelled" =>
           /\ last.value = (last.pre.status \in {PENDING, CONFIRMED})
           /\ orders[last.recv] = last.pre
           /\ Pending(last.recv) = last.pre_events
    /\ last.op = "cancel" =>
           (~last.raised <=> last.pre.status \in {PENDING, CONFIRMED})

\* can_be_cancelled() answered FALSE on a shipped order
C7_Witness ==
    /\ last.op = "can_be_cancelled"
    /\ last.pre.status = SHIPPED
    /\ last.value = FALSE

\* C8: Order.create with an amount <= 0 raises BusinessRuleViolationError named
\* MinimumOrderAmount; with an amount > 0 it returns a PENDING order whose pending
\* events are one OrderCreated with the order_id, customer_id and total_amount given.
C8_Create ==
    last.op = "create" =>
        IF last.args[3].amount <= 0
        THEN /\ last.raised
             /\ last.exc.type = "BusinessRuleViolationError"
             /\ last.exc.rule_name = "MinimumOrderAmount"
        ELSE /\ ~last.raised
             /\ orders[last.ret].status = PENDING
             /\ Len(Pending(last.ret)) = 1
             /\ Pending(last.ret)[1].event_type = "OrderCreated"
             /\ Pending(last.ret)[1].order_id = last.args[1]
             /\ Pending(last.ret)[1].customer_id = last.args[2]
             /\ Pending(last.ret)[1].total_amount = last.args[3]

\* Order.create was refused for an amount of zero
C8_Witness ==
    /\ last.op = "create"
    /\ last.args[3].amount = 0
    /\ last.raised
    /\ Len(orders) = 0

\* the amount a constructing call was given
AmountGiven ==
    IF last.op = "create" THEN last.args[3].amount ELSE last.args[1].total_amount

\* C9: every Order instance on the heap, built by Order.create, by a transition or
\* from a row, has total_amount.amount > 0, and a constructing call given an
\* amount <= 0 raises.
C9_AmountPositive ==
    /\ \A i \in 1 .. Len(orders) : orders[i].total_amount.amount > 0
    /\ (last.op \in {"create", "_model_to_entity"} /\ AmountGiven <= 0) =>
           last.raised /\ Len(orders) = 0

\* a row with amount zero was refused by the Order constructor
C9_Witness ==
    /\ last.op = "_model_to_entity"
    /\ last.args[1].total_amount = 0
    /\ last.raised
    /\ last.exc.rule_name = "MinimumOrderAmount"

\* C10: the order built by create, confirm, ship, deliver with no collection on the
\* way is DELIVERED and has exactly four pending events, in order: OrderCreated, then
\* OrderStatusChanged PENDING->CONFIRMED, CONFIRMED->SHIPPED, SHIPPED->DELIVERED.
C10_RoundTrip ==
    \A i \in 1 .. Len(orders) :
        hist[i] = FullChain =>
            /\ orders[i].status = DELIVERED
            /\ Len(Pending(i)) = 4
            /\ Pending(i)[1].event_type = "OrderCreated"
            /\ \A k \in 2 .. 4 : Pending(i)[k].event_type = "OrderStatusChanged"
            /\ <<Pending(i)[2].old_status, Pending(i)[2].new_status>>
                   = <<PENDING, CONFIRMED>>
            /\ <<Pending(i)[3].old_status, Pending(i)[3].new_status>>
                   = <<CONFIRMED, SHIPPED>>
            /\ <<Pending(i)[4].old_status, Pending(i)[4].new_status>>
                   = <<SHIPPED, DELIVERED>>

\* the round trip was made
C10_Witness ==
    \E i \in 1 .. Len(orders) :
        /\ hist[i] = FullChain
        /\ orders[i].status = DELIVERED
        /\ Len(Pending(i)) = 4

\* C11: collect_domain_events() returns the pending events of the aggregate, in the
\* order they were emitted, and leaves the pending list empty; no field of the
\* aggregate changes; an instance that was collected and not touched since has no
\* pending events, so a second call in a row returns the empty list.
C11_CollectReturnsAndEmpties ==
    /\ last.op = "collect_domain_events" =>
           /\ last.value = last.pre_events
           /\ \A j, k \in 1 .. Len(last.value) :
                  j < k => last.value[j].event_id < last.value[k].event_id
           /\ Pending(last.recv) = <<>>
           /\ orders[last.recv] = last.pre
    /\ \A i \in 1 .. Len(orders) : hist[i] = <<"collect">> => Pending(i) = <<>>

\* a confirmed order gave up its two events, OrderCreated first
C11_Witness ==
    /\ last.op = "collect_domain_events"
    /\ Len(last.value) = 2
    /\ last.value[1].event_type = "OrderCreated"
    /\ last.value[2].event_type = "OrderStatusChanged"
    /\ Pending(last.recv) = <<>>

\* C12: two aggregates are equal iff their ids are equal, whatever their other
\* attributes: a == b answers whether a.id = b.id, for Order and for Customer
\* instances alike, and hash() of an aggregate returns (a value that depends on the
\* id only) instead of raising.
C12_EqualByIdentity ==
    /\ last.op = "__eq__" =>
           last.value = (orders[last.recv].id = orders[last.args[1]].id)
    /\ last.op = "Customer.__eq__" =>
           last.value = (customers[last.recv].id = customers[last.args[1]].id)
    /\ last.op \in {"__hash__", "Customer.__hash__"} => ~last.raised

\* the message msg has the fragment frag
Contains(msg, frag) == \E k \in 1 .. Len(msg) : msg[k] = frag

\* the number of deactivate calls on the chain that derived Customer instance i
Deactivations(i) == Cardinality({k \in 1 .. Len(chist[i]) : chist[i][k] = "deactivate"})

\* C13: Customer.deactivate returns exactly when the receiver is active; on an
\* inactive receiver it raises with a message containing "already deactivated"; so
\* the chain of calls that derived any Customer instance has at most one deactivate.
C13_DeactivateOnce ==
    /\ last.op = "deactivate" =>
           /\ ~last.raised <=> last.pre.is_active
           /\ last.raised => Contains(last.exc.message, "already deactivated")
    /\ \A i \in 1 .. Len(customers) : Deactivations(i) <= 1

\* a second deactivate, on a customer derived from a deactivated one, was refused
C13_Witness ==
    /\ last.op = "deactivate"
    /\ last.raised
    /\ ~last.pre.is_active
    /\ Deactivations(last.recv) = 1
    /\ Len(chist[last.recv]) > 2

\* C14: a deactivate that returns gives a new Customer instance with is_active false
\* and the receiver's id, customer_id, name, email, address, phone, preferences and
\* created_at; its pending events are the receiver's pending events followed by one
\* CustomerDeactivated with the customer_id and the reason supplied ("Manual
\* deactivation" when none is); the receiver and its pending events are as before,
\* still active.
C14_DeactivateFrame ==
    (last.op = "deactivate" /\ ~last.raised) =>
        LET c == customers[last.ret]
            p == last.pre
            new == CustomerPending(last.ret)
            old == last.pre_events
        IN  /\ last.ret # last.recv
            /\ ~c.is_active
            /\ c.id = p.id
            /\ c.customer_id = p.customer_id
            /\ c.name = p.name
            /\ c.email = p.email
            /\ c.address = p.address
            /\ c.phone = p.phone
            /\ c.preferences = p.preferences
            /\ c.created_at = p.created_at
            /\ Len(new) = Len(old) + 1
            /\ SubSeq(new, 1, Len(old)) = old
            /\ new[Len(new)].event_type = "CustomerDeactivated"
            /\ new[Len(new)].customer_id = p.customer_id
            /\ new[Len(new)].reason = IF last.args[1] = Omitted THEN "Manual deactivation"
                                      ELSE last.args[1]
            /\ customers[last.recv] = p
            /\ p.is_active
            /\ CustomerPending(last.recv) = old

\* a freshly created customer with preferences was deactivated for a stated reason:
\* CustomerCreated is carried, CustomerDeactivated follows
C14_Witness ==
    /\ last.op = "deactivate"
    /\ ~last.raised
    /\ last.args = <<"Business closure">>
    /\ last.pre.preferences = ThemeDict
    /\ Len(last.pre_events) = 1
    /\ last.pre_events[1].event_type = "CustomerCreated"
    /\ Len(CustomerPending(last.ret)) = 2
    /\ customers[last.recv].is_active

\* C15: the Customer that update_address or update_phone returns has the pending
\* events of the receiver (the CustomerCreated of a freshly created customer, say)
\* and no other; the receiver and its pending events are as before.
C15_UpdateCarriesEvents ==
    (last.op \in {"update_address", "update_phone"} /\ ~last.raised) =>
        /\ last.ret # last.recv
        /\ CustomerPending(last.ret) = last.pre_events
        /\ customers[last.recv] = last.pre
        /\ CustomerPending(last.recv) = last.pre_events

\* the aggregate operations whose guards can fail
OrderOps == {"create", "confirm", "ship", "deliver", "cancel"}
CustomerOps == {"Customer.create", "deactivate"}

\* C16 as stated: every failure of an aggregate operation, of Order or of Customer, is
\* a BusinessRuleViolationError that carries a rule_name.
C16_AllBusinessRuleViolations ==
    (last.raised /\ last.op \in OrderOps \cup CustomerOps) =>
        /\ last.exc.type = "BusinessRuleViolationError"
        /\ last.exc.rule_name # None

\* C16, amended: every failure of Order.create, confirm, ship, deliver and cancel is
\* a BusinessRuleViolationError that carries a rule_name; Customer.create with a blank
\* name and deactivate on an inactive customer fail with ValueError, which carries no
\* rule_name, as the construction of a Money or an Email does; no other aggregate
\* operation fails.
C16_ErrorKinds ==
    /\ last.raised =>
           \/ /\ last.op \in OrderOps
              /\ last.exc.type = "BusinessRuleViolationError"
              /\ last.exc.rule_name # None
           \/ /\ last.op \in CustomerOps
              /\ last.exc.type = "ValueError"
              /\ last.exc.rule_name = None
    /\ \A a \in Amounts, c \in Currencies :
           Money(a, c).raised => Money(a, c).exc.type = "ValueError"
    /\ \A v \in EmailStrings : Email(v).raised => Email(v).exc.type = "ValueError"

\* Customer.create was refused for a name of blanks, with a ValueError
C16_Witness ==
    /\ last.op = "Customer.create"
    /\ last.args[2] = <<" ", " ">>
    /\ last.raised
    /\ last.exc.type = "ValueError"
    /\ Len(customers) = 0

\* C17: GetCustomerOrdersQuery.execute(c), c the UUID of a customer, returns the
\* stored orders whose customer is c, all of them and no other: the orders of the
\* repository's list whose customer_id holds the UUID c.
C17_QueryReturnsCustomerOrders ==
    (last.op = "GetCustomerOrdersQuery.execute" /\ last.args[1].type = "UUID") =>
        /\ ~last.raised
        /\ last.value =
               SelectSeq(_orders,
                         LAMBDA o : orders[o].customer_id.value = last.args[1].value)

\* the instance the latest save call with this id was made with, 0 when there was none
LatestSaved(pairs, id) ==
    IF \E q \in pairs : q[1] = id THEN (CHOOSE q \in pairs : q[1] = id)[2] ELSE 0

\* C18: each in-memory repository holds at most one aggregate per id, and
\* find_by_id(id) returns, without raising, the aggregate the latest save call with
\* that id was made with, or None when no save call was made with that id.
C18_OnePerIdLatestFound ==
    /\ \A j, k \in 1 .. Len(_customers) :
           j # k => customers[_customers[j]].id # customers[_customers[k]].id
    /\ \A j, k \in 1 .. Len(_orders) :
           j # k => orders[_orders[j]].id # orders[_orders[k]].id
    /\ \A id \in CustomerIds \cup {UnknownUUID} :
           InMemoryCustomerRepository_find_by_id(Heap, id)
               = LatestSaved(latest.customers, id)
    /\ \A id \in OrderIds \cup {UnknownUUID} :
           InMemoryOrderRepository_find_by_id(Heap, id) = LatestSaved(latest.orders, id)
    /\ last.op = "InMemoryCustomerRepository.find_by_id" =>
           ~last.raised /\ last.ret = LatestSaved(latest.customers, last.args[1])
    /\ last.op = "InMemoryOrderRepository.find_by_id" =>
           ~last.raised /\ last.ret = LatestSaved(latest.orders, last.args[1])

\* two customers are stored, one of them saved again after its deactivation, and
\* find_by_id returned the deactivated instance
C18_Witness ==
    /\ last.op = "InMemoryCustomerRepository.find_by_id"
    /\ last.ret # 0
    /\ ~customers[last.ret].is_active
    /\ Len(_customers) = 2
    /\ \E i \in 1 .. Len(customers) :
           /\ i # last.ret
           /\ customers[i].id = customers[last.ret].id
           /\ \E q \in latest.customers : q[2] = last.ret

\* the number of save calls in a log of repository calls
Saves(calls) == Cardinality({k \in 1 .. Len(calls) : calls[k] = "save"})

\* C19: CreateCustomerUseCase.execute raises with a message containing "already
\* exists" and calls save zero times when a stored customer has the command's email;
\* otherwise, when the name is not blank and the email is valid, it calls save exactly
\* once, with a new active customer that has the command's name, email and
\* preferences (empty when none are given), which the repository then holds; in the
\* remaining cases it raises and calls save zero times.
C19_CreateCustomer ==
    last.op = "CreateCustomerUseCase.execute" =>
        LET command == last.args[1]
            existing == \E k \in 1 .. Len(last.pre._customers) :
                            customers[last.pre._customers[k]].email.value = command.email
            valid == /\ \E k \in 1 .. Len(command.name) : command.name[k] \notin Whitespace
                     /\ ~Email(command.email).raised
        IN  IF existing
            THEN /\ last.raised
                 /\ Contains(last.exc.message, "already exists")
                 /\ Saves(last.value) = 0
                 /\ _customers = last.pre._customers
            ELSE IF valid
            THEN /\ ~last.raised
                 /\ Saves(last.value) = 1
                 /\ last.ret = last.pre.customers + 1
                 /\ _customers = Append(last.pre._customers, last.ret)
                 /\ customers[last.ret].is_active
                 /\ customers[last.ret].name = command.name
                 /\ customers[last.ret].email.value = command.email
                 /\ customers[last.ret].preferences =
                        IF command.preferences = NoDict THEN EmptyDict
                        ELSE command.preferences[1]
            ELSE /\ last.raised
                 /\ Saves(last.value) = 0
                 /\ _customers = last.pre._customers

\* a second creation with the email of a stored customer was refused
C19_Witness ==
    /\ last.op = "CreateCustomerUseCase.execute"
    /\ last.raised
    /\ Contains(last.exc.message, "already exists")
    /\ Len(_customers) >= 1
    /\ \E k \in 1 .. Len(_customers) :
           customers[_customers[k]].email.value = last.args[1].email

\* C20: CreateOrderUseCase.execute raises with "not found" and saves nothing when no
\* stored customer has the command's customer id, raises with "inactive customer" and
\* saves nothing when the stored customer is inactive; for a stored active customer it
\* returns exactly when the amount is positive, and then it made one save call, with
\* a new PENDING order carrying the customer's id and the commanded amount and
\* currency, which is the one order the repository gained.
C20_CreateOrder ==
    last.op = "CreateOrderUseCase.execute" =>
        LET command == last.args[1]
            stored == {c \in {last.pre._customers[k] : k \in 1 .. Len(last.pre._customers)} :
                          customers[c].id = command.customer_id}
        IN  IF stored = {}
            THEN /\ last.raised
                 /\ Contains(last.exc.message, "not found")
                 /\ Saves(last.value) = 0
                 /\ _orders = last.pre._orders
            ELSE IF \E c \in stored : ~customers[c].is_active
            THEN /\ last.raised
                 /\ Contains(last.exc.message, "inactive customer")
                 /\ Saves(last.value) = 0
                 /\ _orders = last.pre._orders
            ELSE IF last.raised
            THEN /\ command.total_amount <= 0
                 /\ Saves(last.value) = 0
                 /\ _orders = last.pre._orders
            ELSE /\ command.total_amount > 0
                 /\ Saves(last.value) = 1
                 /\ last.ret = last.pre.orders + 1
                 /\ _orders = Append(last.pre._orders, last.ret)
                 /\ orders[last.ret].status = PENDING
                 /\ orders[last.ret].customer_id = CustomerId(command.customer_id)
                 /\ orders[last.ret].total_amount =
                        [amount |-> command.total_amount, currency |-> command.currency]

\* an order was placed while the customer was active; after the deactivated customer
\* was saved, a second order was refused and the repository still holds the one
C20_Witness ==
    /\ last.op = "CreateOrderUseCase.execute"
    /\ last.raised
    /\ Contains(last.exc.message, "inactive customer")
    /\ Len(_orders) = 1
    /\ last.args[1].total_amount > 0

\* a string of exactly three upper-case letters
ThreeUpperLetters(c) == Len(c) = 3 /\ \A k \in 1 .. Len(c) : c[k] \in UpperChars

\* C21: every Money instance, constructed directly or returned by add, subtract or
\* multiply, has an amount >= 0 and a currency of exactly three upper-case letters,
\* and Money(amount, currency) raises exactly when the amount is negative or the
\* currency is any other string.
C21_MoneyValid ==
    /\ \A i \in 1 .. Len(moneys) :
           moneys[i].amount >= 0 /\ ThreeUpperLetters(moneys[i].currency)
    /\ last.op = "Money" =>
           (last.raised <=> (last.args[1] < 0 \/ ~ThreeUpperLetters(last.args[2])))

\* C22: add and subtract raise when the currencies of the two operands differ and
\* otherwise return the sum, respectively the difference, in the operands' currency,
\* except that subtract raises when the difference is negative; multiply raises
\* exactly for a negative factor and otherwise returns the product; no call changes
\* an instance that existed before it.
C22_MoneyArithmetic ==
    last.op \in {"Money.add", "Money.subtract", "Money.multiply"} =>
        LET self == last.pre[last.recv]
        IN  /\ SubSeq(moneys, 1, Len(last.pre)) = last.pre
            /\ ~last.raised =>
                   /\ moneys = Append(last.pre, last.value)
                   /\ last.value.currency = self.currency
            /\ last.raised => moneys = last.pre
            /\ last.op = "Money.add" =>
                   LET other == last.pre[last.args[1]]
                   IN  /\ last.raised <=> self.currency # other.currency
                       /\ ~last.raised =>
                              last.value.amount = self.amount + other.amount
            /\ last.op = "Money.subtract" =>
                   LET other == last.pre[last.args[1]]
                   IN  /\ last.raised <=> (\/ self.currency # other.currency
                                            \/ self.amount < other.amount)
                       /\ ~last.raised =>
                              last.value.amount = self.amount - other.amount
            /\ last.op = "Money.multiply" =>
                   /\ last.raised <=> last.args[1] < 0
                   /\ ~last.raised => last.value.amount = self.amount * last.args[1]

\* a sum was subtracted from: m.add(m) returned the double of m, and subtracting m
\* from that sum returned a Money of m's amount
C22_Witness ==
    /\ last.op = "Money.subtract"
    /\ ~last.raised
    /\ last.recv = 2 /\ last.args[1] = 1
    /\ last.pre[1].amount > 0
    /\ last.pre[2].amount = 2 * last.pre[1].amount
    /\ last.value.amount = last.pre[1].amount

\* C23: identifiers of two different classes are unequal even when they hold the
\* same UUID value, and two identifiers of the same class are equal exactly when
\* their UUID values are equal.
C23_IdentifierEquality ==
    /\ \A a, b \in Identifiers :
           Identifier___eq__(a, b) <=> (a.type = b.type /\ a.value = b.value)
    /\ last.op = "Identifier.__eq__" =>
           (last.value <=> (/\ last.args[1].type = last.args[2].type
                            /\ last.args[1].value = last.args[2].value))

\* a CustomerId was compared with an OrderId of the same UUID value
C23_Witness ==
    /\ last.op = "Identifier.__eq__"
    /\ last.args[1].type = "CustomerId"
    /\ last.args[2].type = "OrderId"
    /\ last.args[1].value = last.args[2].value
    /\ last.value = FALSE

\* the header names in the order of preference
HeaderOrder ==
    <<"X-Correlation-ID", "X-Request-ID", "X-Trace-ID", "X-Amzn-Trace-Id",
      "AWS-Request-ID">>

\* the value of the first header, in the order of preference, that is present and
\* not empty, or None
FirstNonEmpty(headers) ==
    LET present == {k \in 1 .. Len(HeaderOrder) :
                       Truthy(Headers_get(headers, HeaderOrder[k]))}
    IN  IF present = {} THEN None
        ELSE Headers_get(headers, HeaderOrder[CHOOSE k \in present :
                                                  \A j \in present : k <= j])

\* C24: for each request, once dispatch has chosen it, the correlation id is the
\* value of the first non-empty header in the order of preference, or a generated id
\* when there is none; the route handler reads that id from CorrelationContext.get(),
\* the response carries it in X-Correlation-ID, and the ids generated for two
\* requests differ.
C24_CorrelationId ==
    \A r \in 1 .. Len(requests) :
        LET q == requests[r]
        IN  /\ q.pc # "dispatch" =>
                   IF FirstNonEmpty(q.headers) = None
                   THEN q.generated /\ Truthy(q.correlation_id)
                   ELSE ~q.generated /\ q.correlation_id = FirstNonEmpty(q.headers)
            /\ q.pc \in {"inject", "done"} => q.read = q.correlation_id
            /\ q.pc = "done" =>
                   Headers_get(q.response, "X-Correlation-ID") = q.correlation_id
            /\ \A t \in 1 .. Len(requests) :
                   (t # r /\ q.generated /\ requests[t].generated)
                       => requests[t].correlation_id # q.correlation_id

\* two requests overlap: one, whose X-Correlation-ID is empty, was answered with the
\* id of its X-Request-ID in place of the header its handler had set, while the
\* handler of the other has read a generated id
C24_Witness ==
    \E r, t \in 1 .. Len(requests) :
        /\ requests[r].pc = "done"
        /\ Headers_get(requests[r].headers, "X-Correlation-ID") = ""
        /\ requests[r].response = <<<<"x-correlation-id", "b">>>>
        /\ requests[t].pc = "inject"
        /\ requests[t].generated
        /\ requests[t].read = requests[t].correlation_id

\* C25: a call of confirm, ship, deliver or cancel on an Order, or of deactivate on a
\* Customer, that raises leaves every instance and every list of pending events as
\* they were before the call: the receiver keeps all its fields and its pending
\* events, no event is appended and no instance is constructed.
C25_FailedCallMutatesNothing ==
    [][(last'.raised
        /\ last'.op \in {"confirm", "ship", "deliver", "cancel", "deactivate"})
          => (orders' = orders /\ customers' = customers /\ lists' = lists)]_vars

\* deactivate raised on an inactive customer, which still has the two pending events
\* and the fields it had before the call
C25_Witness ==
    /\ last.op = "deactivate"
    /\ last.raised
    /\ ~customers[last.recv].is_active
    /\ customers[last.recv] = last.pre
    /\ Len(CustomerPending(last.recv)) = 2
    /\ CustomerPending(last.recv) = last.pre_events

\* the status of the instance an operation returns
StatusAfter(op) ==
    CASE op = "create" -> PENDING
      [] op = "confirm" -> CONFIRMED
      [] op = "ship" -> SHIPPED
      [] op = "deliver" -> DELIVERED
      [] op = "cancel" -> CANCELLED

\* C26: an instance keeps the status it was returned with, whatever is called on it
\* afterwards; so on a PENDING order o that confirm() was already called on, o.ship()
\* raises OrderShippingRule, while o.confirm() and o.cancel() return a CONFIRMED and
\* a CANCELLED order with o's order_id.
C26_StaleReceiver ==
    /\ \A i \in 1 .. Len(orders) : orders[i].status = StatusAfter(hist[i][Len(hist[i])])
    /\ \A i \in 1 .. Len(orders) :
           (/\ orders[i].status = PENDING
            /\ \E j \in 1 .. Len(orders) : hist[j] = Append(hist[i], "confirm"))
           => LET shipped == ship(Heap, i, clock + 1, clock + 2, uuids + 1)
                  confirmed == confirm(Heap, i, clock + 1, clock + 2, uuids + 1)
                  cancelled == cancel(Heap, i, Omitted, clock + 1, clock + 2, uuids + 1)
              IN  /\ shipped.raised
                  /\ shipped.exc.rule_name = "OrderShippingRule"
                  /\ ~confirmed.raised
                  /\ confirmed.heap.orders[confirmed.ret].status = CONFIRMED
                  /\ confirmed.heap.orders[confirmed.ret].order_id = orders[i].order_id
                  /\ ~cancelled.raised
                  /\ cancelled.heap.orders[cancelled.ret].status = CANCELLED
                  /\ cancelled.heap.orders[cancelled.ret].order_id = orders[i].order_id
    /\ (last.op = "ship" /\ last.pre.status = PENDING) =>
           last.raised /\ last.exc.rule_name = "OrderShippingRule"

\* confirm() and then cancel() were called on the PENDING order o, each returning an
\* order with o's order_id, and then o.ship() raised
C26_Witness ==
    /\ last.op = "ship"
    /\ last.raised
    /\ orders[last.recv].status = PENDING
    /\ \E j, k \in 1 .. Len(orders) :
           /\ hist[j] = Append(hist[last.recv], "confirm")
           /\ hist[k] = Append(hist[last.recv], "cancel")
           /\ orders[j].status = CONFIRMED
           /\ orders[k].status = CANCELLED
           /\ orders[j].order_id = orders[last.recv].order_id
           /\ orders[k].order_id = orders[last.recv].order_id

\* no two instances refer to the same list object
NoSharedList ==
    /\ \A i, j \in 1 .. Len(orders) :
           i # j => orders[i]._domain_events # orders[j]._domain_events
    /\ \A i, j \in 1 .. Len(customers) :
           i # j => customers[i]._domain_events # customers[j]._domain_events
    /\ \A i \in 1 .. Len(orders), j \in 1 .. Len(customers) :
           orders[i]._domain_events # customers[j]._domain_events

\* a transition or deactivate that returned left the receiver's pending events as
\* they were; the returned instance has them and the new event
ReceiverEventsKept ==
    /\ (last.op \in TransitionOps /\ ~last.raised) =>
           /\ Pending(last.recv) = last.pre_events
           /\ Len(Pending(last.ret)) = Len(last.pre_events) + 1
           /\ SubSeq(Pending(last.ret), 1, Len(last.pre_events)) = last.pre_events
    /\ (last.op = "deactivate" /\ ~last.raised) =>
           /\ CustomerPending(last.recv) = last.pre_events
           /\ Len(CustomerPending(last.ret)) = Len(last.pre_events) + 1
           /\ SubSeq(CustomerPending(last.ret), 1, Len(last.pre_events))
                  = last.pre_events

\* add_domain_event, collect_domain_events and clear_domain_events change the
\* pending events of no instance but the receiver
OtherEventsKept ==
    /\ last'.op \in {"add_domain_event", "collect_domain_events", "clear_domain_events"}
           => /\ orders' = orders
              /\ \A j \in 1 .. Len(orders) :
                     j # last'.recv => lists'[orders[j]._domain_events] = Pending(j)
    /\ last'.op \in {"Customer.add_domain_event", "Customer.collect_domain_events",
                      "Customer.clear_domain_events"}
           => /\ customers' = customers
              /\ \A j \in 1 .. Len(customers) :
                     j # last'.recv
                         => lists'[customers[j]._domain_events] = CustomerPending(j)

\* C27: after an Order transition or Customer.deactivate that returned, the receiver's
\* pending events are as before the call and the returned instance has its own list;
\* no two instances ever share a list, so a later add_domain_event,
\* collect_domain_events or clear_domain_events on one instance changes the pending
\* events of no other.
C27_EventListsIndependent ==
    [](NoSharedList /\ ReceiverEventsKept) /\ [][OtherEventsKept]_vars

\* confirm() returned a second instance; an event was then added to the receiver and
\* the returned instance's events were collected: the receiver has the OrderCreated
\* event and the added one, the returned instance none
C27_Witness ==
    /\ Len(orders) = 2
    /\ orders[2].status = CONFIRMED
    /\ last.op = "collect_domain_events"
    /\ last.recv = 2
    /\ Len(last.value) = 2
    /\ Pending(2) = <<>>
    /\ Len(Pending(1)) = 2
    /\ Pending(1)[2].event_id = 0

\* the event ids of a sequence of events
EventIds(events) == [k \in 1 .. Len(events) |-> events[k].event_id]

\* C28: under linear use of an order, the events collect_domain_events has returned
\* so far are, in order and each once, the first of the events emitted; the events
\* still pending on the latest instance are the rest of them; so right after a
\* collection every emitted event has been returned exactly once.
C28_LinearCollection ==
    /\ \A a, b \in 1 .. Len(emitted) : a # b => emitted[a] # emitted[b]
    /\ Len(collected) <= Len(emitted)
    /\ SubSeq(emitted, 1, Len(collected)) = collected
    /\ Len(orders) >= 1 => collected \o EventIds(Pending(Len(orders))) = emitted
    /\ last.op = "collect_domain_events" => collected = emitted

\* the order was created and confirmed, its two events collected, then shipped and
\* delivered, and a second collection returned the two later events
C28_Witness ==
    /\ last.op = "collect_domain_events"
    /\ Len(last.value) = 2
    /\ Len(emitted) = 4
    /\ collected = emitted
    /\ orders[Len(orders)].status = DELIVERED

\* C29: a Customer returned by deactivate, or by any sequence of deactivate,
\* update_address and update_phone that contains a deactivate, is inactive; and
\* update_address and update_phone return a customer with the receiver's is_active.
C29_ActivityOneWay ==
    /\ \A j \in 1 .. Len(customers) :
           (\E k \in 1 .. Len(chist[j]) : chist[j][k] = "deactivate")
               => ~customers[j].is_active
    /\ (last.op \in {"update_address", "update_phone"} /\ ~last.raised) =>
           customers[last.ret].is_active = last.pre.is_active
    /\ (/\ last.op \in {"deactivate", "update_address", "update_phone"}
        /\ ~last.raised
        /\ ~last.pre.is_active) => ~customers[last.ret].is_active

\* a deactivated customer had its phone and then its address updated, and the
\* customer returned is inactive
C29_Witness ==
    /\ last.op = "update_address"
    /\ ~last.raised
    /\ chist[last.ret] = <<"create", "deactivate", "update_phone", "update_address">>
    /\ ~customers[last.ret].is_active

\* C30: whatever the order in which the tasks that run CreateCustomerUseCase.execute
\* take their steps, no two customers the in-memory repository holds and no two rows
\* of the customers table have the same email string, and of the tasks started
\* with one email at most one has returned from save.
C30_EmailUnique ==
    /\ \A j, k \in 1 .. Len(_customers) :
           j # k => str(customers[_customers[j]].email)
                        # str(customers[_customers[k]].email)
    /\ \A row, other \in rows : row # other => row.email # other.email
    /\ \A t, u \in 1 .. Len(tasks) :
           (/\ t # u
            /\ tasks[t].command.email = tasks[u].command.email
            /\ tasks[t].pc = "returned") => tasks[u].pc # "returned"
    /\ \A t \in 1 .. Len(tasks) :
           tasks[t].pc = "returned"
               => \E row \in rows : /\ row.id = customers[tasks[t].customer].id
                                     /\ row.email = tasks[t].command.email

\* two tasks with the same email both found no customer and went on to save: one
\* returned, the other was refused by the table's unique constraint
C30_Witness ==
    \E t, u \in 1 .. Len(tasks) :
        /\ t # u
        /\ tasks[t].command.email = tasks[u].command.email
        /\ tasks[t].pc = "returned"
        /\ tasks[u].pc = "raised"
        /\ tasks[u].exc = IntegrityError
        /\ tasks[u].customer # 0

====
